---------------------------- MODULE Spec2Model ----------------------------
(***************************************************************************)
(* A model of vcs_repo_mgr (src/vcs_repo_mgr/__init__.py): the clone /     *)
(* update life cycle of a local clone with its last-update marker and the  *)
(* limit_vcs_updates scopes, the release engine (releases, natural order   *)
(* sorting, select_release) and the repository factory with its cache.     *)
(*                                                                         *)
(* Strings are sequences of one-character strings.  The value of the       *)
(* environment variable, of the marker file and of every optional Python   *)
(* value is a sequence of length 0 (absent / None) or 1 (present).         *)
(***************************************************************************)
EXTENDS Integers, Sequences, FiniteSets, TLC

VARIABLES
    clock,      \* time.time(), in ticks of 1/TicksPerSecond second
    environ,    \* os.environ.get(UPDATE_VARIABLE): <<>> or <<integer>>
    scopes,     \* the active limit_vcs_updates objects, innermost last
    exists,     \* exists[l]: the local directory l holds a clone
    marker,     \* marker[l]: contents of <vcs_directory>/vcs-repo-mgr.txt
    pulled,     \* history: pull commands that succeeded on l since the
                \* outermost active limiter scope was entered
    last,       \* the call made by the last step and what it did
    listing,    \* what find_tags()/find_branches() yield, in order
    scheme,     \* Repository.release_scheme
    filter,     \* Repository.release_filter (one of Filters)
    answer,     \* the result of the last release query
    loaded_repositories, \* the factory's cache: cache key -> instance
    heap,       \* the Repository instances constructed so far
    returned,   \* the factory call made by the last step and its result
    earlier     \* history: one of the factory calls made before it

repoVars == <<clock, environ, scopes, exists, marker, pulled, last>>
relVars  == <<listing, scheme, filter, answer>>
facVars  == <<loaded_repositories, heap, returned, earlier>>
vars     == <<clock, environ, scopes, exists, marker, pulled, last,
              listing, scheme, filter, answer,
              loaded_repositories, heap, returned, earlier>>

None == <<>>
Some(v) == <<v>>

(***************************************************************************)
(* Bounds of the model.                                                    *)
(***************************************************************************)
TicksPerSecond == 2     \* clock resolution below the second
MaxClock == 9           \* the last tick the clock reaches
MaxDepth == 2           \* nesting depth of limit_vcs_updates scopes
MaxTags == 3            \* names in one tag/branch listing
MaxInstances == 2       \* Repository instances the factory constructs
MaxNumber == 2          \* the largest revision number
MaxOutput == 3          \* characters in the output of an id command
MaxLines == 2           \* lines in the output of a listing command

-----------------------------------------------------------------------------
(***************************************************************************)
(* Part 1: create(), update(), the marker file and limit_vcs_updates.      *)
(***************************************************************************)

Locals == {"l1", "l2"}

\* The Repository objects of the process: a and b are two objects for the
\* same local clone of a remote, c is a local-only repository (no remote),
\* which the constructor accepts only when the clone exists.
Repos == {"a", "b", "c"}
RepoLocal(r) == IF r = "c" THEN "l2" ELSE "l1"
HasRemote(r) == r # "c"

StartClock == 2 * TicksPerSecond

\* '%i' % time.time(): the whole seconds of the clock.
FormatTime(t) == t \div TicksPerSecond

\* int(os.environ.get(UPDATE_VARIABLE, '0'))
global_last_update(env) == IF env = None THEN 0 ELSE env[1]

\* Repository.last_updated: the integer in the marker file, 0 when the file
\* cannot be read.
last_updated(l) == IF marker[l] = None THEN 0 ELSE marker[l][1]

\* Repository.mark_updated: the marker file after it is written at time t.
mark_updated(m, l, t) == [m EXCEPT ![l] = Some(FormatTime(t))]

\* The record of a factory call: the string given to coerce_repository
\* (<<>> for none), the type and keyword arguments given to
\* repository_factory, the exception raised ("" for none) and the instance
\* returned (its place in heap, 0 for none).
FactoryCall(op, value, vcs_type, kw, exc, instance) ==
    [op |-> op, value |-> value, vcs_type |-> vcs_type, kw |-> kw,
     exc |-> exc, instance |-> instance]
NoCall == FactoryCall("none", <<>>, <<>>, <<>>, "", 0)

Call(op, r, ret, cmds) == [op |-> op, repo |-> r, ret |-> ret, cmds |-> cmds]

InitRepo ==
    /\ clock = StartClock
    /\ environ \in {None, Some(0), Some(1)}
    /\ scopes = <<>>
    /\ exists \in {e \in [Locals -> BOOLEAN] : e["l2"]}
    /\ marker \in {m \in [Locals -> {None, Some(1)}] :
                      \A l \in Locals : ~exists[l] => m[l] = None}
    /\ pulled = [l \in Locals |-> 0]
    /\ last = Call("none", "a", "None", <<>>)
    /\ listing = [tags |-> <<>>, branches |-> <<>>]
    /\ scheme = "tags" /\ filter = "any"
    /\ answer = [op |-> "none", arg |-> <<>>, value |-> <<>>, raised |-> FALSE]
    /\ loaded_repositories = <<>> /\ heap = <<>>
    /\ returned = NoCall /\ earlier = NoCall

Tick ==
    /\ clock < MaxClock
    /\ clock' = clock + 1
    /\ last' = Call("tick", "a", "None", <<>>)
    /\ UNCHANGED <<environ, scopes, exists, marker, pulled, relVars, facVars>>

\* limit_vcs_updates.__enter__ of a new limiter object: the old_value it
\* saves and the value it gives the variable.  Next to old_value a scope
\* records, as history, the variable as it was before the entry.
enter_old_value(env) == env
enter_environ(t) == Some(FormatTime(t))

Enter ==
    /\ Len(scopes) < MaxDepth
    /\ scopes' = Append(scopes, [old_value |-> enter_old_value(environ),
                                  before |-> environ])
    /\ environ' = enter_environ(clock)
    /\ pulled' = IF scopes = <<>> THEN [l \in Locals |-> 0] ELSE pulled
    /\ last' = Call("enter", "a", "None", <<>>)
    /\ UNCHANGED <<clock, exists, marker, relVars, facVars>>

\* The variable after limit_vcs_updates.__exit__ of an object whose
\* old_value is old, when the variable holds env.
exit_environ_del(old, env) == None
exit_environ(old, env) == IF old # None THEN old ELSE None

\* limit_vcs_updates.__exit__ of the innermost active limiter object.
Exit ==
    /\ scopes # <<>>
    /\ environ' = exit_environ(scopes[Len(scopes)].old_value, environ)
    /\ scopes' = SubSeq(scopes, 1, Len(scopes) - 1)
    /\ pulled' = IF Len(scopes) = 1 THEN [l \in Locals |-> 0] ELSE pulled
    /\ last' = Call("exit", "a", "None", <<>>)
    /\ UNCHANGED <<clock, exists, marker, relVars, facVars>>

\* The body of Repository.create() for repository r; ok is whether the
\* clone command exits with status zero.  Gives the new exists and marker,
\* the commands run and the result ("raise": ExternalCommandFailed).
create_always(r, ok) ==
    LET l == RepoLocal(r) IN
    IF ok
    THEN [exists |-> [exists EXCEPT ![l] = TRUE],
          marker |-> mark_updated(marker, l, clock),
          cmds |-> <<"clone">>, ret |-> "True"]
    ELSE [exists |-> exists, marker |-> marker,
          cmds |-> <<"clone">>, ret |-> "raise"]

create(r, ok) ==
    LET l == RepoLocal(r) IN
    IF exists[l]
    THEN [exists |-> exists, marker |-> marker, cmds |-> <<>>, ret |-> "False"]
    ELSE IF ok
    THEN [exists |-> [exists EXCEPT ![l] = TRUE],
          marker |-> mark_updated(marker, l, clock),
          cmds |-> <<"clone">>, ret |-> "True"]
    ELSE [exists |-> exists, marker |-> marker,
          cmds |-> <<"clone">>, ret |-> "raise"]

\* A repository without a remote is only constructed on an existing clone,
\* so create() never formats a clone command with remote=None.
Create(r) ==
    \E ok \in BOOLEAN :
        LET c == create(r, ok) IN
        /\ exists' = c.exists
        /\ marker' = c.marker
        /\ last' = Call("create", r, c.ret, c.cmds)
        /\ UNCHANGED <<clock, environ, scopes, pulled, relVars, facVars>>

\* The test of update() that skips the pull: limit is global_last_update.
update_skips_without_limit(limit, lu) == lu >= limit
update_skips_strict(limit, lu) == limit # 0 /\ lu > limit
update_skips(limit, lu) == limit # 0 /\ lu >= limit

\* Repository.update(), were the pull run after a fresh clone as well.
update_pulls_after_clone(r, ok) ==
    LET l == RepoLocal(r)
        c == create(r, ok)
    IN
    IF ~HasRemote(r)
    THEN [exists |-> exists, marker |-> marker, cmds |-> <<>>, ret |-> "None"]
    ELSE IF c.ret = "raise" THEN c
    ELSE IF update_skips(global_last_update(environ), last_updated(l))
    THEN [exists |-> c.exists, marker |-> c.marker, cmds |-> c.cmds,
          ret |-> "None"]
    ELSE [exists |-> c.exists, marker |-> mark_updated(marker, l, clock),
          cmds |-> c.cmds \o <<"pull">>, ret |-> "None"]

\* Repository.update() without the test of the remote.
update_without_remote_test(r, ok) ==
    LET l == RepoLocal(r)
        c == create(r, ok)
    IN
    IF c.ret = "raise" THEN c
    ELSE IF c.ret = "True"
    THEN [exists |-> c.exists, marker |-> c.marker, cmds |-> c.cmds, ret |-> "None"]
    ELSE IF update_skips(global_last_update(environ), last_updated(l))
    THEN [exists |-> exists, marker |-> marker, cmds |-> <<>>, ret |-> "None"]
    ELSE IF ok
    THEN [exists |-> exists, marker |-> mark_updated(marker, l, clock),
          cmds |-> <<"pull">>, ret |-> "None"]
    ELSE [exists |-> exists, marker |-> marker,
          cmds |-> <<"pull">>, ret |-> "raise"]

\* Repository.update(), were the marker written before the pull command
\* is known to have succeeded.
update_marks_before_pull(r, ok) ==
    LET l == RepoLocal(r)
        c == create(r, ok)
    IN
    IF ~HasRemote(r)
    THEN [exists |-> exists, marker |-> marker, cmds |-> <<>>, ret |-> "None"]
    ELSE IF c.ret = "raise" THEN c
    ELSE IF c.ret = "True"
    THEN [exists |-> c.exists, marker |-> c.marker, cmds |-> c.cmds, ret |-> "None"]
    ELSE IF update_skips(global_last_update(environ), last_updated(l))
    THEN [exists |-> exists, marker |-> marker, cmds |-> <<>>, ret |-> "None"]
    ELSE [exists |-> exists, marker |-> mark_updated(marker, l, clock),
          cmds |-> <<"pull">>, ret |-> IF ok THEN "None" ELSE "raise"]

\* The body of Repository.update(); ok is whether the command it runs
\* (clone or pull) exits with status zero.
update(r, ok) ==
    LET l == RepoLocal(r)
        c == create(r, ok)
    IN
    IF ~HasRemote(r)
    THEN [exists |-> exists, marker |-> marker, cmds |-> <<>>, ret |-> "None"]
    ELSE IF c.ret = "raise" THEN c
    ELSE IF c.ret = "True"
    THEN [exists |-> c.exists, marker |-> c.marker, cmds |-> c.cmds, ret |-> "None"]
    ELSE IF update_skips(global_last_update(environ), last_updated(l))
    THEN [exists |-> exists, marker |-> marker, cmds |-> <<>>, ret |-> "None"]
    ELSE IF ok
    THEN [exists |-> exists, marker |-> mark_updated(marker, l, clock),
          cmds |-> <<"pull">>, ret |-> "None"]
    ELSE [exists |-> exists, marker |-> marker,
          cmds |-> <<"pull">>, ret |-> "raise"]

Update(r) ==
    \E ok \in BOOLEAN :
        LET u == update(r, ok)
            l == RepoLocal(r) IN
        /\ exists' = u.exists
        /\ marker' = u.marker
        /\ pulled' = IF scopes # <<>> /\ u.cmds = <<"pull">> /\ u.ret # "raise"
                     THEN [pulled EXCEPT ![l] = @ + 1]
                     ELSE pulled
        /\ last' = Call("update", r, u.ret, u.cmds)
        /\ UNCHANGED <<clock, environ, scopes, relVars, facVars>>

NextRepo ==
    \/ Tick
    \/ Enter
    \/ Exit
    \/ \E r \in Repos : Create(r)
    \/ \E r \in Repos : Update(r)

SpecRepo == InitRepo /\ [][NextRepo]_vars

\* The operations that start with self.create() and then run one VCS
\* command: branches, tags and releases (the listing command of
\* find_branches / find_tags), export, find_revision_number and
\* find_revision_id.
LazyOps == {"branches", "tags", "releases", "export",
            "find_revision_number", "find_revision_id"}
QueryOf(op) ==
    CASE op = "branches" -> "find_branches"
      [] op \in {"tags", "releases"} -> "find_tags"
      [] OTHER -> op

\* Such an operation, were the command run without self.create() first.
operate_without_create(r, op, ok, ok2) ==
    [exists |-> exists, marker |-> marker, cmds |-> <<QueryOf(op)>>,
     ret |-> IF ok2 THEN "None" ELSE "raise"]

\* The body of such an operation on repository r: ok is whether the clone
\* command succeeds, ok2 whether the command of the operation does.
operate(r, op, ok, ok2) ==
    LET c == create(r, ok) IN
    IF c.ret = "raise" THEN c
    ELSE [exists |-> c.exists, marker |-> c.marker,
          cmds |-> c.cmds \o <<QueryOf(op)>>,
          ret |-> IF ok2 THEN "None" ELSE "raise"]

Operate(r, op) ==
    \E ok \in BOOLEAN, ok2 \in BOOLEAN :
        LET o == operate(r, op, ok, ok2) IN
        /\ exists' = o.exists
        /\ marker' = o.marker
        /\ last' = Call(op, r, o.ret, o.cmds)
        /\ UNCHANGED <<clock, environ, scopes, pulled, relVars, facVars>>

\* create(), update() and the operations above in any order, from the
\* states a repository can be in.
InitLazy ==
    /\ clock = StartClock
    /\ environ \in {None, Some(0), Some(1)}
    /\ scopes = <<>>
    /\ exists \in {e \in [Locals -> BOOLEAN] : e["l2"]}
    /\ marker \in {m \in [Locals -> {None, Some(1)}] :
                      \A l \in Locals : ~exists[l] => m[l] = None}
    /\ pulled = [l \in Locals |-> 0]
    /\ last = Call("none", "a", "None", <<>>)
    /\ listing = [tags |-> <<>>, branches |-> <<>>]
    /\ scheme = "tags" /\ filter = "any"
    /\ answer = [op |-> "none", arg |-> <<>>, value |-> <<>>, raised |-> FALSE]
    /\ loaded_repositories = <<>> /\ heap = <<>>
    /\ returned = NoCall /\ earlier = NoCall

NextLazy ==
    \/ \E r \in Repos : Create(r)
    \/ \E r \in Repos : Update(r)
    \/ \E r \in Repos, op \in LazyOps : Operate(r, op)

SpecLazy == InitLazy /\ [][NextLazy]_vars


-----------------------------------------------------------------------------
(***************************************************************************)
(* Claims about create(), update() and limit_vcs_updates (SpecRepo).       *)
(***************************************************************************)

\* C1: create() is idempotent.  A create() on a repository whose local
\* clone does not exist runs the clone command and, unless that command
\* fails, returns True and leaves the clone in place; a clone, once there,
\* stays; and every create() on an existing clone returns False, runs no
\* command and changes neither the clone nor the last-update marker.
C1_CreateIdempotent ==
    [][ /\ \A l \in Locals : exists[l] => exists'[l]
        /\ \A r \in Repos :
              (last'.op = "create" /\ last'.repo = r) =>
                  IF exists[RepoLocal(r)]
                  THEN /\ last'.ret = "False"
                       /\ last'.cmds = <<>>
                       /\ exists' = exists
                       /\ marker' = marker
                  ELSE /\ last'.cmds = <<"clone">>
                       /\ last'.ret \in {"True", "raise"}
                       /\ last'.ret = "True" => exists'[RepoLocal(r)] ]_vars

\* C1 witness: a create() that returned False on a clone that was made
\* during this run (its marker is not older than the start of the run).
C1_Witness ==
    /\ last.op = "create" /\ last.repo = "a" /\ last.ret = "False"
    /\ exists["l1"]
    /\ last_updated("l1") >= FormatTime(StartClock)

\* C2: while a limit_vcs_updates scope is active (scopes nested in it
\* included, whichever Repository object makes the call) the pull command
\* is executed at most once per local clone.  Only pulls that succeeded
\* are counted, which reads the claim in the code's favour.
C2_AtMostOnePullPerScope ==
    scopes # <<>> => \A l \in Locals : pulled[l] <= 1

\* C3 (as amended): update() on an existing clone with a remote skips the
\* pull, leaving the marker as it is, when the update-limit variable holds
\* a non-zero limit and last_updated >= limit; in every other case (the
\* recorded time below the limit, the variable absent or holding 0) it
\* runs the pull command.
C3_UpdateSkipsAtOrAboveLimit ==
    [][ \A r \in Repos :
          (last'.op = "update" /\ last'.repo = r
               /\ HasRemote(r) /\ exists[RepoLocal(r)]) =>
              LET limit == global_last_update(environ)
                  lu == last_updated(RepoLocal(r)) IN
              IF environ # None /\ limit # 0 /\ lu >= limit
              THEN last'.cmds = <<>> /\ marker' = marker
              ELSE last'.cmds = <<"pull">> ]_vars

\* C3 witness: an update() skipped under a limit equal to the recorded time.
C3_Witness ==
    /\ last.op = "update" /\ last.repo = "a" /\ last.cmds = <<>>
    /\ exists["l1"]
    /\ environ # None
    /\ global_last_update(environ) # 0
    /\ last_updated("l1") = global_last_update(environ)

\* C3 as stated: update() on an existing clone with a remote skips the pull
\* whenever the variable is set and last_updated >= limit, and runs the
\* pull when last_updated < limit.
C3_Original ==
    [][ \A r \in Repos :
          (last'.op = "update" /\ last'.repo = r
               /\ HasRemote(r) /\ exists[RepoLocal(r)] /\ environ # None) =>
              LET limit == global_last_update(environ)
                  lu == last_updated(RepoLocal(r)) IN
              IF lu >= limit
              THEN last'.cmds = <<>> /\ marker' = marker
              ELSE last'.cmds = <<"pull">> ]_vars

\* C4: when a limit_vcs_updates scope exits, the update-limit variable has
\* exactly the value it had before that scope was entered, and is absent if
\* it was absent then, at every nesting depth.
C4_ExitRestoresVariable ==
    [][ last'.op = "exit" => environ' = scopes[Len(scopes)].before ]_vars

\* C4 witness: a nested scope has exited and the variable again holds the
\* limit of the scope around it, which differs from the nested one's.
C4_Witness ==
    /\ last.op = "exit"
    /\ Len(scopes) = 1
    /\ environ # None
    /\ environ # scopes[1].before
    /\ environ[1] < FormatTime(clock)

-----------------------------------------------------------------------------
(***************************************************************************)
(* Part 2: tags, branches, releases, natural order and select_release.     *)
(***************************************************************************)

Digit == {"0", "1", "2", "3", "4", "5", "8", "9"}
IsDigit(c) == c \in Digit

DigitValue(c) ==
    CASE c = "0" -> 0 [] c = "1" -> 1 [] c = "2" -> 2 [] c = "3" -> 3
      [] c = "4" -> 4 [] c = "5" -> 5 [] c = "8" -> 8 [] c = "9" -> 9

\* The code point of a character.
Ord(c) ==
    CASE IsDigit(c) -> 48 + DigitValue(c)
      [] c = "-" -> 45 [] c = "." -> 46 [] c = "a" -> 97 [] c = "e" -> 101
      [] c = "l" -> 108 [] c = "m" -> 109 [] c = "n" -> 110 [] c = "o" -> 111
      [] c = "r" -> 114 [] c = "s" -> 115 [] c = "t" -> 116 [] c = "v" -> 118

\* int(token) of a run of digits.
RECURSIVE ParseInt(_)
ParseInt(run) ==
    IF run = <<>> THEN 0
    ELSE 10 * ParseInt(SubSeq(run, 1, Len(run) - 1)) + DigitValue(run[Len(run)])

\* The first index from i on whose character is a digit or not (as asked),
\* Len(s) + 1 when there is none.
RECURSIVE RunEnd(_, _, _)
RunEnd(s, i, digit) ==
    IF i > Len(s) \/ IsDigit(s[i]) # digit THEN i ELSE RunEnd(s, i + 1, digit)

\* re.split(r'(\d+)', s) from index i on, with the digit runs made integers:
\* strings at the odd places, integers at the even places, a (possibly
\* empty) string first and last.
RECURSIVE SplitFrom(_, _, _)
SplitFrom(s, i, digit) ==
    LET j == RunEnd(s, i, digit) IN
    IF digit
    THEN <<ParseInt(SubSeq(s, i, j - 1))>> \o SplitFrom(s, j, FALSE)
    ELSE IF j > Len(s)
         THEN <<SubSeq(s, i, j - 1)>>
         ELSE <<SubSeq(s, i, j - 1)>> \o SplitFrom(s, j, TRUE)

\* natsort.natsort_key: the runs of the string.
natsort_key(s) == SplitFrom(s, 1, FALSE)

\* Comparison of two strings by code points: -1, 0 or 1.
RECURSIVE StrCmp(_, _, _)
StrCmp(x, y, i) ==
    IF i > Len(x) /\ i > Len(y) THEN 0
    ELSE IF i > Len(x) THEN -1
    ELSE IF i > Len(y) THEN 1
    ELSE IF Ord(x[i]) < Ord(y[i]) THEN -1
    ELSE IF Ord(x[i]) > Ord(y[i]) THEN 1
    ELSE StrCmp(x, y, i + 1)

\* Comparison of two keys, run by run: digit runs as numbers, the others as
\* strings; a key that is a proper prefix of another comes first.
RECURSIVE KeyCmp(_, _, _)
KeyCmp(a, b, i) ==
    IF i > Len(a) /\ i > Len(b) THEN 0
    ELSE IF i > Len(a) THEN -1
    ELSE IF i > Len(b) THEN 1
    ELSE LET c == IF i % 2 = 0
                  THEN (IF a[i] < b[i] THEN -1 ELSE IF a[i] > b[i] THEN 1 ELSE 0)
                  ELSE StrCmp(a[i], b[i], 1)
         IN IF c # 0 THEN c ELSE KeyCmp(a, b, i + 1)

KeyLeq(a, b) == KeyCmp(a, b, 1) <= 0
KeyLess(a, b) == KeyCmp(a, b, 1) < 0

\* sorted() inserts each item behind the items whose key is not greater
\* (it is stable); items are records, field the attribute sorted by.
RECURSIVE InsertSorted(_, _, _)
InsertSorted(sorted, x, field) ==
    IF sorted = <<>> THEN <<x>>
    ELSE IF KeyLess(natsort_key(x[field]), natsort_key(Head(sorted)[field]))
         THEN <<x>> \o sorted
         ELSE <<Head(sorted)>> \o InsertSorted(Tail(sorted), x, field)

RECURSIVE natsort(_, _)
natsort(items, field) ==
    IF items = <<>> THEN <<>>
    ELSE InsertSorted(natsort(SubSeq(items, 1, Len(items) - 1), field),
                      items[Len(items)], field)

\* The tag and branch names of the model.
T_0_2   == <<"0", ".", "2">>
T_0_02  == <<"0", ".", "0", "2">>
T_0_19  == <<"0", ".", "1", "9">>
T_0_19_3 == <<"0", ".", "1", "9", ".", "3">>
T_v0_2  == <<"v", "0", ".", "2">>
T_v2_4_0 == <<"v", "2", ".", "4", ".", "0">>
T_not_a_release ==
    <<"n", "o", "t", "-", "a", "-", "r", "e", "l", "e", "a", "s", "e">>
T_master == <<"m", "a", "s", "t", "e", "r">>
T_0_19_5 == <<"0", ".", "1", "9", ".", "5">>
T_0_0_1 == <<"0", ".", "0", ".", "1">>
T_2_4_0 == <<"2", ".", "4", ".", "0">>

Names == {T_0_2, T_0_02, T_0_19, T_0_19_3, T_v0_2, T_v2_4_0,
         T_not_a_release}
BranchNames == {T_master, T_0_2}

\* The arguments given to select_release.
Ceilings == {T_0_2, T_0_02, T_0_19, T_0_19_5, T_0_0_1, T_2_4_0}

\* The sequences of at most n different elements of S.
RECURSIVE Listings(_, _)
Listings(S, n) ==
    IF n = 0 THEN {<<>>}
    ELSE LET shorter == Listings(S, n - 1) IN
         shorter \cup {Append(q, x) : q \in {p \in shorter : Len(p) = n - 1},
                                      x \in S}

NoRepeat(q) == \A i, j \in 1..Len(q) : i # j => q[i] # q[j]

\* The revision id the repository has for a name (two names may be the
\* same revision).
RevisionId(name) ==
    CASE name = T_0_2 -> "a1"
      [] name = T_0_02 -> "b2"
      [] name \in {T_0_19, T_master} -> "c3"
      [] name = T_0_19_3 -> "d4"
      [] name = T_v0_2 -> "e5"
      [] OTHER -> "f6"

\* Revision(repository=self, revision_id=..., tag=name) and
\* Revision(repository=self, revision_id=..., branch=name); a name is never
\* empty, and the empty sequence stands for None.
TagRevision(name) ==
    [revision_id |-> RevisionId(name), tag |-> name, branch |-> None]
BranchRevision(name) ==
    [revision_id |-> RevisionId(name), tag |-> None, branch |-> name]

\* A dict is the sequence of its items [key, value] in insertion order; an
\* assignment to a key it has replaces the value in place.
RECURSIVE DictSet(_, _, _)
DictSet(d, k, v) ==
    IF d = <<>> THEN <<[key |-> k, value |-> v]>>
    ELSE IF Head(d).key = k THEN <<[key |-> k, value |-> v]>> \o Tail(d)
    ELSE <<Head(d)>> \o DictSet(Tail(d), k, v)

DictKeys(d) == {d[i].key : i \in 1..Len(d)}
DictGet(d, k) == d[CHOOSE i \in 1..Len(d) : d[i].key = k].value
DictValues(d) == [i \in 1..Len(d) |-> d[i].value]

\* dict((r.tag, r) for r in self.find_tags()), and the same for branches.
RECURSIVE DictOf(_, _)
DictOf(revisions, field) ==
    IF revisions = <<>> THEN <<>>
    ELSE LET r == revisions[Len(revisions)] IN
         DictSet(DictOf(SubSeq(revisions, 1, Len(revisions) - 1), field),
                 r[field], r)

tags == DictOf(listing.tags, "tag")
branches == DictOf(listing.branches, "branch")

\* s[i..] matches \d+(?:\.\d+)*$
RECURSIVE IsDotted(_, _)
IsDotted(s, i) ==
    LET j == RunEnd(s, i, TRUE) IN
    /\ j > i
    /\ \/ j > Len(s)
       \/ s[j] = "." /\ IsDotted(s, j + 1)

\* The release filters of the model:
\*   "any"     .*                       (the default, no capture group)
\*   "v"       ^v(\d+(?:\.\d+)*)$
\*   "optv"    ^v?(\d+(?:\.\d+)*)$
\*   "vopt"    ^v(\d+(?:\.\d+)*)?$      (the group may take no part)
Filters == {"any", "v", "optv"}

\* None where a string is expected: the value match.groups() has for a
\* group that took no part in the match. No string equals it.
PyNone == <<"None">>

\* self.release_filter.match(name): None when the name does not match, else
\* Some(match.groups()), the captured substrings.
filter_match(f, name) ==
    CASE f = "any" -> Some(<<>>)
      [] f = "v" ->
            IF name[1] = "v" /\ IsDotted(name, 2)
            THEN Some(<<Tail(name)>>) ELSE None
      [] f = "optv" ->
            IF name[1] = "v" /\ IsDotted(name, 2) THEN Some(<<Tail(name)>>)
            ELSE IF IsDotted(name, 1) THEN Some(<<name>>)
            ELSE None
      [] f = "vopt" ->
            IF name = <<"v">> THEN Some(<<PyNone>>)
            ELSE IF name[1] = "v" /\ IsDotted(name, 2)
            THEN Some(<<Tail(name)>>) ELSE None

\* Release(revision=revision, identifier=identifier)
Release(revision, identifier) ==
    [revision |-> revision, identifier |-> identifier]

\* getattr(self, self.release_scheme)
available_revisions == IF scheme = "tags" THEN tags ELSE branches

\* The identifier of the release made from a matching name: the substring
\* of the capture group when the filter has one, else the name.
release_identifier_name(name, captures) == name
release_identifier(name, captures) ==
    IF captures # <<>> THEN captures[1] ELSE name

\* The loop of Repository.releases over the first n items of the mapping.
RECURSIVE releases_loop(_, _)
releases_loop(items, n) ==
    IF n = 0 THEN <<>>
    ELSE LET done == releases_loop(items, n - 1)
             m == filter_match(filter, items[n].key)
         IN IF m = None THEN done
            ELSE LET identifier == release_identifier(items[n].key, m[1])
                 IN DictSet(done, identifier,
                            Release(items[n].value, identifier))

\* Repository.releases
releases == releases_loop(available_revisions, Len(available_revisions))

\* Repository.ordered_tags, ordered_branches, ordered_releases
ordered_tags == natsort(DictValues(tags), "tag")
ordered_branches == natsort(DictValues(branches), "branch")
ordered_releases_unsorted == DictValues(releases)
ordered_releases == natsort(DictValues(releases), "identifier")

\* The loop of select_release: the releases, in order, at or below the key.
RECURSIVE matching_releases(_, _)
matching_releases(ordered, highest_allowed_key) ==
    IF ordered = <<>> THEN <<>>
    ELSE LET rest == matching_releases(SubSeq(ordered, 1, Len(ordered) - 1),
                                       highest_allowed_key)
             release == ordered[Len(ordered)]
         IN IF KeyLeq(natsort_key(release.identifier), highest_allowed_key)
            THEN Append(rest, release) ELSE rest

\* Repository.select_release: Some(release), or None for
\* NoMatchingReleasesError.
select_release_first(highest_allowed_release) ==
    LET matching == matching_releases(ordered_releases,
                                      natsort_key(highest_allowed_release))
    IN IF matching = <<>> THEN None ELSE Some(matching[1])
select_release_newest(highest_allowed_release) ==
    IF ordered_releases = <<>> THEN None
    ELSE Some(ordered_releases[Len(ordered_releases)])
select_release(highest_allowed_release) ==
    LET matching == matching_releases(ordered_releases,
                                      natsort_key(highest_allowed_release))
    IN IF matching = <<>> THEN None ELSE Some(matching[Len(matching)])

Answer(op, arg, value, raised) ==
    [op |-> op, arg |-> arg, value |-> value, raised |-> raised]

\* What a release_to_branch / release_to_tag call did: the name returned
\* or the exception raised, and the listing commands it ran (the clone
\* exists, so create() runs none).
Translated(value, raised, cmds) ==
    [value |-> value, raised |-> raised, cmds |-> cmds]

\* Repository.release_to_tag without the test of the release scheme.
release_to_tag_unchecked(release_id) ==
    IF release_id \notin DictKeys(releases)
    THEN Translated(<<"KeyError">>, TRUE, <<"find_" \o scheme>>)
    ELSE Translated(DictGet(releases, release_id).revision.tag, FALSE,
                    <<"find_" \o scheme>>)

\* Repository.release_to_branch(release_id)
release_to_branch(release_id) ==
    IF scheme # "branches"
    THEN Translated(<<"TypeError">>, TRUE, <<>>)
    ELSE IF release_id \notin DictKeys(releases)
    THEN Translated(<<"KeyError">>, TRUE, <<"find_branches">>)
    ELSE Translated(DictGet(releases, release_id).revision.branch, FALSE,
                    <<"find_branches">>)

\* Repository.release_to_tag(release_id)
release_to_tag(release_id) ==
    IF scheme # "tags"
    THEN Translated(<<"TypeError">>, TRUE, <<>>)
    ELSE IF release_id \notin DictKeys(releases)
    THEN Translated(<<"KeyError">>, TRUE, <<"find_tags">>)
    ELSE Translated(DictGet(releases, release_id).revision.tag, FALSE,
                    <<"find_tags">>)

\* The identifiers given to release_to_branch and release_to_tag: those of
\* the releases, and one that no release has.
ReleaseIds == DictKeys(releases) \cup {T_0_0_1}

InitRel ==
    /\ scheme \in {"tags", "branches"}
    /\ filter \in Filters
    /\ \E q \in {p \in Listings(IF scheme = "tags" THEN Names ELSE BranchNames,
                                  MaxTags) : NoRepeat(p)} :
          listing = IF scheme = "tags"
                    THEN [tags |-> [i \in 1..Len(q) |-> TagRevision(q[i])],
                          branches |-> <<BranchRevision(T_master)>>]
                    ELSE [tags |-> <<TagRevision(T_0_2)>>,
                          branches |-> [i \in 1..Len(q) |-> BranchRevision(q[i])]]
    /\ answer = Answer("none", <<>>, <<>>, FALSE)
    /\ clock = StartClock /\ environ = None /\ scopes = <<>>
    /\ exists = [l \in Locals |-> TRUE]
    /\ marker = [l \in Locals |-> None]
    /\ pulled = [l \in Locals |-> 0]
    /\ last = Call("none", "a", "None", <<>>)
    /\ loaded_repositories = <<>> /\ heap = <<>>
    /\ returned = NoCall /\ earlier = NoCall

GetTags ==
    /\ answer' = Answer("tags", <<>>, tags, FALSE)
    /\ UNCHANGED <<listing, scheme, filter, repoVars, facVars>>

GetBranches ==
    /\ answer' = Answer("branches", <<>>, branches, FALSE)
    /\ UNCHANGED <<listing, scheme, filter, repoVars, facVars>>

GetReleases ==
    /\ answer' = Answer("releases", <<>>, releases, FALSE)
    /\ UNCHANGED <<listing, scheme, filter, repoVars, facVars>>

GetOrderedTags ==
    /\ answer' = Answer("ordered_tags", <<>>, ordered_tags, FALSE)
    /\ UNCHANGED <<listing, scheme, filter, repoVars, facVars>>

GetOrderedBranches ==
    /\ answer' = Answer("ordered_branches", <<>>, ordered_branches, FALSE)
    /\ UNCHANGED <<listing, scheme, filter, repoVars, facVars>>

GetOrderedReleases ==
    /\ answer' = Answer("ordered_releases", <<>>, ordered_releases, FALSE)
    /\ UNCHANGED <<listing, scheme, filter, repoVars, facVars>>

SelectRelease(h) ==
    LET r == select_release(h) IN
    /\ answer' = Answer("select_release", h, r, r = None)
    /\ UNCHANGED <<listing, scheme, filter, repoVars, facVars>>

\* An answer together with the commands the call ran.
AnswerRan(op, arg, value, raised, cmds) ==
    [op |-> op, arg |-> arg, value |-> value, raised |-> raised,
     cmds |-> cmds]

ReleaseToBranch(release_id) ==
    LET t == release_to_branch(release_id) IN
    /\ answer' = AnswerRan("release_to_branch", release_id, t.value, t.raised,
                         t.cmds)
    /\ UNCHANGED <<listing, scheme, filter, repoVars, facVars>>

ReleaseToTag(release_id) ==
    LET t == release_to_tag(release_id) IN
    /\ answer' = AnswerRan("release_to_tag", release_id, t.value, t.raised,
                         t.cmds)
    /\ UNCHANGED <<listing, scheme, filter, repoVars, facVars>>

NextRel ==
    \/ GetTags
    \/ GetBranches
    \/ GetReleases
    \/ GetOrderedTags
    \/ GetOrderedBranches
    \/ GetOrderedReleases
    \/ \E h \in Ceilings : SelectRelease(h)
    \/ \E id \in ReleaseIds : ReleaseToBranch(id)
    \/ \E id \in ReleaseIds : ReleaseToTag(id)

SpecRel == InitRel /\ [][NextRel]_vars

-----------------------------------------------------------------------------
(***************************************************************************)
(* Claims about the release engine (SpecRel).                              *)
(***************************************************************************)

Key(release) == natsort_key(release.identifier)
ReleaseSet == {releases[i].value : i \in 1..Len(releases)}

\* C5: select_release(ceiling), when it returns, returns a release whose
\* identifier's natural-order key is at most the key of the ceiling, and no
\* release has a key that is at most the ceiling's key and strictly greater
\* than the key of the release returned.
C5_SelectGreatestNotAbove ==
    (answer.op = "select_release" /\ ~answer.raised) =>
        LET r == answer.value[1]
            ceiling == natsort_key(answer.arg) IN
        /\ r \in ReleaseSet
        /\ KeyLeq(Key(r), ceiling)
        /\ \A x \in ReleaseSet :
              ~(KeyLeq(Key(x), ceiling) /\ KeyLess(Key(r), Key(x)))

\* C5 witness: releases 0.19 and 0.19.3 (and others), ceiling 0.19.5,
\* result 0.19.3.
C5_Witness ==
    /\ answer.op = "select_release" /\ ~answer.raised
    /\ answer.arg = T_0_19_5
    /\ answer.value[1].identifier = T_0_19_3
    /\ Len(releases) = 3
    /\ T_0_19 \in DictKeys(releases)

\* C6: for every identifier X that is a key of releases, select_release(X)
\* returns the release whose identifier is exactly X, also when another
\* release identifier has the same natural-order key as X.
C6_SelectExactMatch ==
    (answer.op = "select_release" /\ answer.arg \in DictKeys(releases)) =>
        /\ ~answer.raised
        /\ answer.value[1].identifier = answer.arg

\* C7: select_release(ceiling) raises NoMatchingReleasesError if and only
\* if no release identifier has a natural-order key at most the key of the
\* ceiling; it never returns a release above the ceiling.
C7_SelectRaisesIffNoneBelow ==
    answer.op = "select_release" =>
        LET ceiling == natsort_key(answer.arg) IN
        /\ answer.raised <=> ~\E x \in ReleaseSet : KeyLeq(Key(x), ceiling)
        /\ ~answer.raised => KeyLeq(Key(answer.value[1]), ceiling)

\* C7 witness: there are releases, all of them above the ceiling 0.0.1, and
\* select_release raised.
C7_Witness ==
    /\ answer.op = "select_release" /\ answer.raised
    /\ answer.arg = T_0_0_1
    /\ Len(releases) >= 2

\* The names of the mapping the releases are made from, the identifier the
\* filter gives a matching name, and the position of a name in the mapping.
SourceNames == DictKeys(available_revisions)
Matches(name) == filter_match(filter, name) # None
IdentifierOf(name) ==
    LET groups == filter_match(filter, name)[1] IN
    IF Len(groups) >= 1 THEN groups[1] ELSE name
PositionOf(name) ==
    CHOOSE i \in 1..Len(available_revisions) : available_revisions[i].key = name

\* C8 (as amended): releases has an entry for a tag/branch name exactly
\* when release_filter matches the name; the key of the entry is the
\* identifier of its Release, which is the captured substring when the
\* filter has a capture group and the full name otherwise; there is one
\* entry per identifier, and its revision is the Revision of the last name
\* of the mapping that yields that identifier (the Revision of the name
\* itself whenever no later name yields the same identifier).
C8_ReleasesFromFilter ==
    answer.op = "releases" =>
        LET R == answer.value IN
        /\ \A i, j \in 1..Len(R) : i # j => R[i].key # R[j].key
        /\ DictKeys(R) = {IdentifierOf(n) : n \in {m \in SourceNames : Matches(m)}}
        /\ \A i \in 1..Len(R) : R[i].value.identifier = R[i].key
        /\ \A n \in SourceNames :
              (Matches(n) /\ ~\E m \in SourceNames :
                                /\ Matches(m)
                                /\ IdentifierOf(m) = IdentifierOf(n)
                                /\ PositionOf(m) > PositionOf(n)) =>
                  DictGet(R, IdentifierOf(n)).revision
                      = DictGet(available_revisions, n)

\* C8 witness: filter ^v(\d+(?:\.\d+)*)$ with the tags v2.4.0 and
\* not-a-release gives the one release 2.4.0, of the revision of v2.4.0.
C8_Witness ==
    /\ answer.op = "releases"
    /\ filter = "v" /\ scheme = "tags"
    /\ SourceNames = {T_v2_4_0, T_not_a_release}
    /\ DictKeys(answer.value) = {T_2_4_0}
    /\ DictGet(answer.value, T_2_4_0).revision = TagRevision(T_v2_4_0)

\* C8 as stated: an entry for a name exactly when the filter matches it,
\* keyed by the identifier, and the revision of the entry of every matching
\* name is the Revision of that name.
C8_Original ==
    answer.op = "releases" =>
        LET R == answer.value IN
        /\ DictKeys(R) = {IdentifierOf(n) : n \in {m \in SourceNames : Matches(m)}}
        /\ \A i \in 1..Len(R) : R[i].value.identifier = R[i].key
        /\ \A n \in SourceNames :
              Matches(n) =>
                  DictGet(R, IdentifierOf(n)).revision
                      = DictGet(available_revisions, n)

Count(q, x) == Cardinality({i \in 1..Len(q) : q[i] = x})
SameItems(p, q) ==
    /\ Len(p) = Len(q)
    /\ \A i \in 1..Len(p) : Count(p, p[i]) = Count(q, p[i])
Ascending(q, field) ==
    \A i, j \in 1..Len(q) :
        i < j => KeyLeq(natsort_key(q[i][field]), natsort_key(q[j][field]))
\* 0.2 comes before 0.19 (2 < 19 as numbers, though "19" < "2" as strings).
NumericRuns(q, field) ==
    \A i, j \in 1..Len(q) :
        (q[i][field] = T_0_2 /\ q[j][field] = T_0_19) => i < j

\* C9: ordered_tags, ordered_branches and ordered_releases hold exactly the
\* values of tags, branches and releases (none lost, none twice), in
\* ascending natural order of the name/identifier, digit runs compared as
\* numbers.
C9_OrderedIsSortedValues ==
    /\ answer.op = "ordered_tags" =>
          /\ SameItems(answer.value, DictValues(tags))
          /\ Ascending(answer.value, "tag")
          /\ NumericRuns(answer.value, "tag")
    /\ answer.op = "ordered_branches" =>
          /\ SameItems(answer.value, DictValues(branches))
          /\ Ascending(answer.value, "branch")
    /\ answer.op = "ordered_releases" =>
          /\ SameItems(answer.value, DictValues(releases))
          /\ Ascending(answer.value, "identifier")
          /\ NumericRuns(answer.value, "identifier")

\* C9 witness: the releases 0.19, 0.02 and 0.2, found in this order, are
\* ordered 0.02, 0.2, 0.19.
C9_Witness ==
    /\ answer.op = "ordered_releases"
    /\ filter = "any"
    /\ [i \in 1..Len(releases) |-> releases[i].key] = <<T_0_19, T_0_02, T_0_2>>
    /\ [i \in 1..Len(answer.value) |-> answer.value[i].identifier]
           = <<T_0_02, T_0_2, T_0_19>>

-----------------------------------------------------------------------------
(***************************************************************************)
(* Part 3: Repository.__init__, repository_factory, coerce_repository and  *)
(* find_configured_repository.                                             *)
(*                                                                         *)
(* Keyword arguments (a Python dict) are the sequence of their items       *)
(* <<k, v>> in the order of the keys; v is None or Some(string).           *)
(***************************************************************************)

S_git == <<"g", "i", "t">>
S_hg == <<"h", "g">>
S_Hg == <<"H", "g">>
S_svn == <<"s", "v", "n">>
S_bzr == <<"b", "z", "r">>
S_bazaar == <<"b", "a", "z", "a", "a", "r">>
S_mercurial == <<"m", "e", "r", "c", "u", "r", "i", "a", "l">>
S_tags == <<"t", "a", "g", "s">>
S_branches == <<"b", "r", "a", "n", "c", "h", "e", "s">>
S_None == <<"N", "o", "n", "e">>
S_bogus == <<"b", "o", "g", "u", "s">>
S_dot_git == <<".", "g", "i", "t">>
S_any == <<".", "*">>
\* Remote locations, a local directory, a configured name and a string
\* that is neither.
U1 == <<"a">> \o S_dot_git
U2 == <<"b">> \o S_dot_git
P1 == <<"/", "p">>
P2 == <<"/", "q">>
N_t == <<"t">>
N_x_2 == <<"x", "_", "2">>
N_x2 == <<"x", "-", "2">>
N_u == <<"u">>
N_b_git == <<"b", "-", "g", "i", "t">>
N_e == <<"e">>
V_x2 == <<"X", "2">>
V_T == <<"T", "-">>
V_hg_U1 == S_hg \o <<"+">> \o U1
V_svn_U1 == S_svn \o <<"+">> \o U1
V_svn_x == S_svn \o <<"+", "x">>
V_junk == <<"j", "u", "n", "k">>

\* str.lower() and the characters [a-z0-9]
LowerChar(c) ==
    CASE c = "H" -> "h" [] c = "T" -> "t" [] c = "X" -> "x" [] OTHER -> c
Lower(str) == [i \in 1..Len(str) |-> LowerChar(str[i])]
IsLowerAlnum(c) ==
    c \in Digit \cup {"a", "b", "c", "d", "e", "f", "g", "h", "i", "j", "k",
                      "l", "m", "n", "o", "p", "q", "r", "s", "t", "u", "v",
                      "w", "x", "y", "z"}

\* normalize_name: re.sub('[^a-z0-9]', '', name.lower())
normalize_name(name) == SelectSeq(Lower(name), IsLowerAlnum)

\* The truth value of an optional string: None and '' are false.
Truthy(v) == v # None /\ v[1] # <<>>

\* The value of keyword k, None (the default of the parameter) when absent.
KwGet(kw, k) ==
    IF \E i \in 1..Len(kw) : kw[i][1] = k
    THEN kw[CHOOSE i \in 1..Len(kw) : kw[i][1] = k][2]
    ELSE None

\* '%s' % v
FormatValue(v) == IF v = None THEN S_None ELSE v[1]

\* tuple('%s=%s' % (k, v) for k, v in sorted(kw.items())): the keys hold no
\* '=', so each string is given by its key and its formatted value.
cache_key(kw) == [i \in 1..Len(kw) |-> <<kw[i][1], "=", FormatValue(kw[i][2])>>]

\* find_cache_directory(remote): the cache directory and the quoted remote
\* (the remotes of the model hold no character that quote() changes).
find_cache_directory(remote) == <<"/", "c", "/">> \o remote

\* The classes the type strings name, "" for an unknown type.
ClassOf(vcs_type) ==
    CASE vcs_type \in {S_bzr, S_bazaar} -> "BzrRepo"
      [] vcs_type = S_git -> "GitRepo"
      [] vcs_type \in {S_hg, S_mercurial} -> "HgRepo"
      [] OTHER -> ""

\* <Class>.exists of an object of class cls at the local path: in the
\* model the directory P1 is where a git clone may be (exists["l1"]).
LocalExists(cls, path) == cls = "GitRepo" /\ path = P1 /\ exists["l1"]

\* re.compile(pattern).groups for the patterns of the model: the opening
\* parentheses that do not start a (?...) group.
Groups(pattern) ==
    Cardinality({i \in 1..Len(pattern) :
                    /\ pattern[i] = "("
                    /\ ~(i < Len(pattern) /\ pattern[i + 1] = "?")})

\* re.compile(pattern) succeeds: for the patterns of the model, when the
\* parentheses are balanced.
Opened(pattern, n) ==
    Cardinality({i \in 1..n : pattern[i] = "("}) -
    Cardinality({i \in 1..n : pattern[i] = ")"})
Compiles(pattern) ==
    /\ \A n \in 1..Len(pattern) : Opened(pattern, n) >= 0
    /\ Opened(pattern, Len(pattern)) = 0

\* Repository.__init__ without the test of the release scheme.
Construct_any_scheme(cls, kw) ==
    LET given_local == KwGet(kw, "local")
        remote == KwGet(kw, "remote")
        release_scheme == IF Truthy(KwGet(kw, "release_scheme"))
                          THEN KwGet(kw, "release_scheme")[1] ELSE S_tags
        release_filter == IF Truthy(KwGet(kw, "release_filter"))
                          THEN KwGet(kw, "release_filter")[1] ELSE S_any
        local == IF Truthy(remote) /\ ~Truthy(given_local)
                 THEN Some(find_cache_directory(remote[1]))
                 ELSE given_local
        object == [cls |-> cls, local |-> local, remote |-> remote,
                   release_scheme |-> release_scheme,
                   release_filter |-> release_filter]
    IN IF ~(Truthy(given_local) \/ Truthy(remote))
       THEN [exc |-> "ValueError", object |-> None]
       ELSE IF ~(LocalExists(cls, local[1]) \/ Truthy(remote))
       THEN [exc |-> "ValueError", object |-> None]
       ELSE IF ~Compiles(release_filter)
       THEN [exc |-> "re.error", object |-> None]
       ELSE IF Groups(release_filter) > 1
       THEN [exc |-> "ValueError", object |-> None]
       ELSE [exc |-> "", object |-> Some(object)]

\* Repository.__init__ for class cls: the object, or the exception.
Construct(cls, kw) ==
    LET given_local == KwGet(kw, "local")
        remote == KwGet(kw, "remote")
        release_scheme == IF Truthy(KwGet(kw, "release_scheme"))
                          THEN KwGet(kw, "release_scheme")[1] ELSE S_tags
        release_filter == IF Truthy(KwGet(kw, "release_filter"))
                          THEN KwGet(kw, "release_filter")[1] ELSE S_any
        local == IF Truthy(remote) /\ ~Truthy(given_local)
                 THEN Some(find_cache_directory(remote[1]))
                 ELSE given_local
        object == [cls |-> cls, local |-> local, remote |-> remote,
                   release_scheme |-> release_scheme,
                   release_filter |-> release_filter]
    IN IF ~(Truthy(given_local) \/ Truthy(remote))
       THEN [exc |-> "ValueError", object |-> None]
       ELSE IF ~(LocalExists(cls, local[1]) \/ Truthy(remote))
       THEN [exc |-> "ValueError", object |-> None]
       ELSE IF release_scheme \notin {S_branches, S_tags}
       THEN [exc |-> "ValueError", object |-> None]
       ELSE IF ~Compiles(release_filter)
       THEN [exc |-> "re.error", object |-> None]
       ELSE IF Groups(release_filter) > 1
       THEN [exc |-> "ValueError", object |-> None]
       ELSE [exc |-> "", object |-> Some(object)]

\* repository_factory(vcs_type, **kw) with the cache and the heap as they
\* are: the exception or the instance returned, the new cache and heap.
Outcome(exc, instance, cache, objects) ==
    [exc |-> exc, instance |-> instance, cache |-> cache, heap |-> objects]

repository_factory_nocache(vcs_type, kw) ==
    LET cls == ClassOf(Lower(vcs_type))
        made == Construct(cls, kw)
    IN IF cls = ""
       THEN Outcome("UnknownRepositoryTypeError", 0, loaded_repositories, heap)
       ELSE IF made.exc # ""
       THEN Outcome(made.exc, 0, loaded_repositories, heap)
       ELSE Outcome("", Len(heap) + 1,
                    DictSet(loaded_repositories, cache_key(kw), Len(heap) + 1),
                    Append(heap, made.object[1]))

\* repository_factory, were the key bound before the constructor is run.
repository_factory_eager(vcs_type, kw) ==
    LET cls == ClassOf(Lower(vcs_type))
        key == cache_key(kw)
        made == Construct(cls, kw)
    IN IF cls = ""
       THEN Outcome("UnknownRepositoryTypeError", 0, loaded_repositories, heap)
       ELSE IF key \in DictKeys(loaded_repositories)
       THEN Outcome("", DictGet(loaded_repositories, key),
                    loaded_repositories, heap)
       ELSE IF made.exc # ""
       THEN Outcome(made.exc, 0, DictSet(loaded_repositories, key, 0), heap)
       ELSE Outcome("", Len(heap) + 1,
                    DictSet(loaded_repositories, key, Len(heap) + 1),
                    Append(heap, made.object[1]))

repository_factory(vcs_type, kw) ==
    LET cls == ClassOf(Lower(vcs_type))
        key == cache_key(kw)
        made == Construct(cls, kw)
    IN IF cls = ""
       THEN Outcome("UnknownRepositoryTypeError", 0, loaded_repositories, heap)
       ELSE IF key \in DictKeys(loaded_repositories)
       THEN Outcome("", DictGet(loaded_repositories, key),
                    loaded_repositories, heap)
       ELSE IF made.exc # ""
       THEN Outcome(made.exc, 0, loaded_repositories, heap)
       ELSE Outcome("", Len(heap) + 1,
                    DictSet(loaded_repositories, key, Len(heap) + 1),
                    Append(heap, made.object[1]))

\* The sections of the configuration files (the user's file read over the
\* system's), each with its options.
Section(name, type, remote) ==
    [name |-> name,
     options |-> IF remote = None
                 THEN << <<"type", Some(type)>> >>
                 ELSE << <<"remote", remote>>,
                         <<"type", Some(type)>> >>]
ConfigSections ==
    << Section(N_t, S_git, Some(U1)),
       Section(N_x_2, S_git, Some(U1)),
       Section(N_x2, S_git, Some(U2)),
       Section(N_u, S_svn, Some(U1)),
       Section(N_b_git, S_Hg, Some(U1)),
       Section(N_e, S_git, None) >>

\* What a call that ends in repository_factory did: the outcome, and the
\* type and keyword arguments it gave the factory (None when it made no
\* factory call).
Resolved(out, vcs_type, kw) == [out |-> out, vcs_type |-> vcs_type, kw |-> kw]

\* find_configured_repository(name), were the first of several matching
\* sections taken.
find_configured_first(name) ==
    LET matching_repos ==
            SelectSeq(ConfigSections,
                      LAMBDA sec : normalize_name(name) = normalize_name(sec.name))
    IN IF matching_repos = <<>>
       THEN Resolved(Outcome("NoSuchRepositoryError", 0,
                             loaded_repositories, heap), None, <<>>)
       ELSE LET options == matching_repos[1].options
                vcs_type == Lower(IF KwGet(options, "type") = None THEN <<>>
                                  ELSE KwGet(options, "type")[1])
                kw == << <<"local", KwGet(options, "local")>>,
                         <<"release_filter", KwGet(options, "release-filter")>>,
                         <<"release_scheme", KwGet(options, "release-scheme")>>,
                         <<"remote", KwGet(options, "remote")>> >>
            IN Resolved(repository_factory(vcs_type, kw), Some(vcs_type), kw)

\* find_configured_repository(name)
find_configured_repository(name) ==
    LET matching_repos ==
            SelectSeq(ConfigSections,
                      LAMBDA sec : normalize_name(name) = normalize_name(sec.name))
    IN IF matching_repos = <<>>
       THEN Resolved(Outcome("NoSuchRepositoryError", 0,
                             loaded_repositories, heap), None, <<>>)
       ELSE IF Len(matching_repos) # 1
       THEN Resolved(Outcome("AmbiguousRepositoryNameError", 0,
                             loaded_repositories, heap), None, <<>>)
       ELSE LET options == matching_repos[1].options
                vcs_type == Lower(IF KwGet(options, "type") = None THEN <<>>
                                  ELSE KwGet(options, "type")[1])
                kw == << <<"local", KwGet(options, "local")>>,
                         <<"release_filter", KwGet(options, "release-filter")>>,
                         <<"release_scheme", KwGet(options, "release-scheme")>>,
                         <<"remote", KwGet(options, "remote")>> >>
            IN Resolved(repository_factory(vcs_type, kw), Some(vcs_type), kw)

\* value.partition('+'): the text before the first '+' and the text after
\* it; the whole string and '' when there is none.
Partition(value) ==
    IF \E i \in 1..Len(value) : value[i] = "+"
    THEN LET i == CHOOSE i \in 1..Len(value) :
                      /\ value[i] = "+"
                      /\ \A j \in 1..(i - 1) : value[j] # "+"
         IN <<SubSeq(value, 1, i - 1), SubSeq(value, i + 1, Len(value))>>
    ELSE <<value, <<>>>>

EndsWith(value, suffix) ==
    /\ Len(value) >= Len(suffix)
    /\ SubSeq(value, Len(value) - Len(suffix) + 1, Len(value)) = suffix

RemoteOnly(remote) == << <<"remote", Some(remote)>> >>

\* coerce_repository(value) for a string, were every error of the name
\* lookup swallowed.
coerce_string_swallow_all(value) ==
    LET configured == find_configured_repository(value)
        vcs_type == Partition(value)[1]
        remote == Partition(value)[2]
        prefixed == repository_factory(vcs_type, RemoteOnly(remote))
    IN IF configured.out.exc = "" THEN configured
       ELSE IF /\ vcs_type # <<>> /\ remote # <<>>
               /\ prefixed.exc # "UnknownRepositoryTypeError"
       THEN Resolved(prefixed, Some(vcs_type), RemoteOnly(remote))
       ELSE IF EndsWith(value, S_dot_git)
       THEN Resolved(repository_factory(S_git, RemoteOnly(value)),
                     Some(S_git), RemoteOnly(value))
       ELSE Resolved(Outcome("ValueError", 0, loaded_repositories, heap),
                     None, <<>>)

\* coerce_repository(value) for a string
coerce_string(value) ==
    LET configured == find_configured_repository(value)
        vcs_type == Partition(value)[1]
        remote == Partition(value)[2]
        prefixed == repository_factory(vcs_type, RemoteOnly(remote))
    IN IF configured.out.exc # "NoSuchRepositoryError" THEN configured
       ELSE IF /\ vcs_type # <<>> /\ remote # <<>>
               /\ prefixed.exc # "UnknownRepositoryTypeError"
       THEN Resolved(prefixed, Some(vcs_type), RemoteOnly(remote))
       ELSE IF EndsWith(value, S_dot_git)
       THEN Resolved(repository_factory(S_git, RemoteOnly(value)),
                     Some(S_git), RemoteOnly(value))
       ELSE Resolved(Outcome("ValueError", 0, loaded_repositories, heap),
                     None, <<>>)

FactoryTypes == {S_git, S_hg, S_Hg, S_svn}
KwInputs == { <<>>,
              RemoteOnly(U1),
              RemoteOnly(U2),
              << <<"local", Some(P1)>> >> }
FactoryStrings == {U1, V_hg_U1, V_T, V_junk}
ConfiguredNames == {V_T, V_x2, N_u, V_junk, U2, N_e}
CoerceStrings == FactoryStrings \cup {V_x2, N_u, U2, N_e, V_svn_U1, V_svn_x}

InitFactory ==
    /\ loaded_repositories = <<>> /\ heap = <<>>
    /\ returned = NoCall /\ earlier = NoCall
    /\ exists \in {e \in [Locals -> BOOLEAN] : e["l2"]}
    /\ marker = [l \in Locals |-> None]
    /\ clock = StartClock /\ environ = None /\ scopes = <<>>
    /\ pulled = [l \in Locals |-> 0]
    /\ last = Call("none", "a", "None", <<>>)
    /\ listing = [tags |-> <<>>, branches |-> <<>>]
    /\ scheme = "tags" /\ filter = "any"
    /\ answer = Answer("none", <<>>, <<>>, FALSE)

\* A call of repository_factory(vcs_type, **kw).
FactoryStep(vcs_type, kw) ==
    LET out == repository_factory(vcs_type, kw) IN
    /\ Len(out.heap) <= MaxInstances
    /\ loaded_repositories' = out.cache
    /\ heap' = out.heap
    /\ returned' = FactoryCall("factory", None, Some(vcs_type), kw, out.exc,
                               out.instance)
    /\ UNCHANGED <<repoVars, relVars>>

\* A call of coerce_repository(value) with a string.
CoerceStringStep(value) ==
    LET res == coerce_string(value) IN
    /\ Len(res.out.heap) <= MaxInstances
    /\ loaded_repositories' = res.out.cache
    /\ heap' = res.out.heap
    /\ returned' = FactoryCall("coerce", Some(value), res.vcs_type, res.kw,
                               res.out.exc, res.out.instance)
    /\ UNCHANGED <<repoVars, relVars>>

\* A call of coerce_repository(value) with a Repository object.
CoerceObjectStep(i) ==
    /\ returned' = FactoryCall("coerce_object", None, None, <<>>, "", i)
    /\ UNCHANGED <<loaded_repositories, heap, repoVars, relVars>>

\* A call of coerce_repository(value) with neither a string nor a
\* Repository object.
CoerceOtherStep ==
    /\ returned' = FactoryCall("coerce_other", None, None, <<>>,
                               "ValueError", 0)
    /\ UNCHANGED <<loaded_repositories, heap, repoVars, relVars>>

\* The calls of SpecFactory: earlier remembers any one call made before
\* the call in returned.
Factory(vcs_type, kw) ==
    FactoryStep(vcs_type, kw) /\ earlier' \in {earlier, returned}
CoerceString(value) ==
    CoerceStringStep(value) /\ earlier' \in {earlier, returned}
CoerceObject(i) ==
    CoerceObjectStep(i) /\ earlier' \in {earlier, returned}
CoerceOther ==
    CoerceOtherStep /\ earlier' \in {earlier, returned}

NextFactory ==
    \/ \E t \in FactoryTypes, kw \in KwInputs : Factory(t, kw)
    \/ \E v \in FactoryStrings : CoerceString(v)
    \/ \E i \in 1..Len(heap) : CoerceObject(i)
    \/ CoerceOther

SpecFactory == InitFactory /\ [][NextFactory]_vars

\* The calls of SpecCoerce: every string of CoerceStrings, no memory of
\* earlier calls.
InitCoerce ==
    /\ loaded_repositories = <<>> /\ heap = <<>>
    /\ returned = NoCall /\ earlier = NoCall
    /\ exists \in {e \in [Locals -> BOOLEAN] : e["l2"]}
    /\ marker = [l \in Locals |-> None]
    /\ clock = StartClock /\ environ = None /\ scopes = <<>>
    /\ pulled = [l \in Locals |-> 0]
    /\ last = Call("none", "a", "None", <<>>)
    /\ listing = [tags |-> <<>>, branches |-> <<>>]
    /\ scheme = "tags" /\ filter = "any"
    /\ answer = Answer("none", <<>>, <<>>, FALSE)

CallFactory(vcs_type, kw) == FactoryStep(vcs_type, kw) /\ UNCHANGED earlier
CallCoerce(value) == CoerceStringStep(value) /\ UNCHANGED earlier
CallCoerceObject(i) == CoerceObjectStep(i) /\ UNCHANGED earlier
CallCoerceOther == CoerceOtherStep /\ UNCHANGED earlier

\* A call of find_configured_repository(name).
CallFindConfigured(name) ==
    LET res == find_configured_repository(name) IN
    /\ Len(res.out.heap) <= MaxInstances
    /\ loaded_repositories' = res.out.cache
    /\ heap' = res.out.heap
    /\ returned' = FactoryCall("find", Some(name), res.vcs_type, res.kw,
                               res.out.exc, res.out.instance)
    /\ UNCHANGED <<earlier, repoVars, relVars>>

NextCoerce ==
    \/ \E t \in FactoryTypes, kw \in KwInputs : CallFactory(t, kw)
    \/ \E v \in CoerceStrings : CallCoerce(v)
    \/ \E n \in ConfiguredNames : CallFindConfigured(n)
    \/ \E i \in 1..Len(heap) : CallCoerceObject(i)
    \/ CallCoerceOther

SpecCoerce == InitCoerce /\ [][NextCoerce]_vars

-----------------------------------------------------------------------------
(***************************************************************************)
(* Claims about the factory and its cache (SpecFactory).                   *)
(***************************************************************************)

MadeInstance(call) ==
    call.op \in {"factory", "coerce"} /\ call.exc = "" /\ call.instance # 0

\* C10: after any sequence of repository_factory / coerce_repository
\* calls, two calls with identical construction arguments return the
\* identical Repository instance, calls with different remote URLs return
\* distinct instances, and the cache never drops or replaces an entry.
\* (earlier is any call made before the call in returned.)
C10_FactoryDeduplicates ==
    /\ [](MadeInstance(earlier) /\ MadeInstance(returned) =>
            /\ (earlier.vcs_type = returned.vcs_type /\ earlier.kw = returned.kw)
                   => earlier.instance = returned.instance
            /\ (/\ Truthy(KwGet(earlier.kw, "remote"))
                /\ Truthy(KwGet(returned.kw, "remote"))
                /\ KwGet(earlier.kw, "remote") # KwGet(returned.kw, "remote"))
                   => earlier.instance # returned.instance)
    /\ [][ /\ Len(loaded_repositories') >= Len(loaded_repositories)
           /\ \A i \in 1..Len(loaded_repositories) :
                 loaded_repositories'[i] = loaded_repositories[i] ]_vars

\* C10 witness: coerce_repository of the same remote returned the first
\* instance again after a second instance had been constructed.
C10_Witness ==
    /\ earlier.op = "coerce" /\ returned.op = "coerce"
    /\ earlier.kw = RemoteOnly(U1) /\ returned.kw = RemoteOnly(U1)
    /\ earlier.vcs_type = returned.vcs_type
    /\ earlier.instance = 1 /\ returned.instance = 1
    /\ Len(heap) = 2
    /\ Len(loaded_repositories) = 2

\* C11: the registry key includes the backend type: every successful
\* repository_factory(type, args) call returns an instance of the backend
\* named by type, so calls with the same constructor arguments but types
\* naming different backends return distinct instances.
C11_InstanceOfNamedBackend ==
    /\ (returned.op = "factory" /\ MadeInstance(returned)) =>
           heap[returned.instance].cls = ClassOf(Lower(returned.vcs_type[1]))
    /\ (/\ earlier.op = "factory" /\ MadeInstance(earlier)
        /\ returned.op = "factory" /\ MadeInstance(returned)
        /\ earlier.kw = returned.kw
        /\ ClassOf(Lower(earlier.vcs_type[1])) #
               ClassOf(Lower(returned.vcs_type[1])))
           => earlier.instance # returned.instance

-----------------------------------------------------------------------------
(***************************************************************************)
(* Part 4: constructing Repository objects directly (SpecConstruct).       *)
(* returned records the constructor call, heap holds the object made.      *)
(***************************************************************************)

F_two == <<"(", "a", ")", "(", "b", ")">>
F_noncap == <<"(", "?", ":", "a", ")", "(", "b", ")">>
F_bad == <<"(", "a">>

Classes == {"GitRepo", "HgRepo", "BzrRepo"}
LocalInputs == {None, Some(P1), Some(P2)}
RemoteInputs == {None, Some(<<>>), Some(U1)}
SchemeInputs == {None, Some(S_tags), Some(S_branches), Some(S_bogus)}
FilterInputs == {None, Some(S_any), Some(F_two), Some(F_noncap), Some(F_bad)}

\* The keyword arguments local, remote, release_scheme and release_filter
\* (None is the default of each parameter).
KwOf(local, remote, release_scheme, release_filter) ==
    << <<"local", local>>,
       <<"release_filter", release_filter>>,
       <<"release_scheme", release_scheme>>,
       <<"remote", remote>> >>

InitConstruct ==
    /\ loaded_repositories = <<>> /\ heap = <<>>
    /\ returned = NoCall /\ earlier = NoCall
    /\ exists \in {e \in [Locals -> BOOLEAN] : e["l2"]}
    /\ marker = [l \in Locals |-> None]
    /\ clock = StartClock /\ environ = None /\ scopes = <<>>
    /\ pulled = [l \in Locals |-> 0]
    /\ last = Call("none", "a", "None", <<>>)
    /\ listing = [tags |-> <<>>, branches |-> <<>>]
    /\ scheme = "tags" /\ filter = "any"
    /\ answer = Answer("none", <<>>, <<>>, FALSE)

\* cls(**kw): the object made replaces the one of the step before.
New(cls, kw) ==
    LET made == Construct(cls, kw) IN
    /\ heap' = IF made.exc = "" THEN <<made.object[1]>> ELSE <<>>
    /\ returned' = FactoryCall("init", None, Some(cls), kw, made.exc,
                               IF made.exc = "" THEN 1 ELSE 0)
    /\ UNCHANGED <<loaded_repositories, earlier, repoVars, relVars>>

NextConstruct ==
    \E cls \in Classes, l \in LocalInputs, r \in RemoteInputs,
       s \in SchemeInputs, f \in FilterInputs : New(cls, KwOf(l, r, s, f))

SpecConstruct == InitConstruct /\ [][NextConstruct]_vars

\* The four cases of the constructor's documentation, for the call in
\* returned.
NoLocalNoRemote(kw) == ~Truthy(KwGet(kw, "local")) /\ ~Truthy(KwGet(kw, "remote"))
MissingLocalNoRemote(cls, kw) ==
    /\ Truthy(KwGet(kw, "local")) /\ ~Truthy(KwGet(kw, "remote"))
    /\ ~LocalExists(cls, KwGet(kw, "local")[1])
BadScheme(kw) ==
    /\ Truthy(KwGet(kw, "release_scheme"))
    /\ KwGet(kw, "release_scheme")[1] \notin {S_tags, S_branches}
FilterOf(kw) ==
    IF Truthy(KwGet(kw, "release_filter"))
    THEN KwGet(kw, "release_filter")[1] ELSE S_any
ManyGroups(kw) == Groups(FilterOf(kw)) > 1
DocumentedError(cls, kw) ==
    \/ NoLocalNoRemote(kw) \/ MissingLocalNoRemote(cls, kw)
    \/ BadScheme(kw) \/ ManyGroups(kw)
ConstructedWithDefaults(kw) ==
    /\ returned.exc = "" /\ Len(heap) = 1
    /\ heap[1].release_scheme =
           (IF Truthy(KwGet(kw, "release_scheme"))
            THEN KwGet(kw, "release_scheme")[1] ELSE S_tags)
    /\ heap[1].release_filter = FilterOf(kw)
    /\ heap[1].remote = KwGet(kw, "remote")
    /\ heap[1].local =
           (IF Truthy(KwGet(kw, "local")) THEN KwGet(kw, "local")
            ELSE Some(find_cache_directory(KwGet(kw, "remote")[1])))

\* C12 (as amended): for a release_filter that is a valid regular
\* expression, constructing a Repository raises ValueError in each of the
\* four documented cases and in all other cases succeeds with
\* release_scheme defaulting to 'tags', release_filter to '.*' and local
\* derived from remote when omitted; a release_filter that does not
\* compile raises ValueError in the first three cases and the error of
\* re.compile otherwise.
C12_ConstructorErrors ==
    returned.op = "init" =>
        LET cls == returned.vcs_type[1]
            kw == returned.kw
        IN IF Compiles(FilterOf(kw))
           THEN IF DocumentedError(cls, kw)
                THEN returned.exc = "ValueError" /\ heap = <<>>
                ELSE ConstructedWithDefaults(kw)
           ELSE IF \/ NoLocalNoRemote(kw) \/ MissingLocalNoRemote(cls, kw)
                   \/ BadScheme(kw)
                THEN returned.exc = "ValueError" /\ heap = <<>>
                ELSE returned.exc = "re.error" /\ heap = <<>>

\* C12 witness: only a remote was given and the object has the defaults.
C12_Witness ==
    /\ returned.op = "init" /\ returned.exc = ""
    /\ returned.kw = KwOf(None, Some(U1), None, None)
    /\ heap = << [cls |-> "HgRepo",
                  local |-> Some(find_cache_directory(U1)),
                  remote |-> Some(U1), release_scheme |-> S_tags,
                  release_filter |-> S_any] >>

\* C12 as stated: ValueError in each of the four cases, success with the
\* defaults in all other cases.
C12_Original ==
    returned.op = "init" =>
        IF DocumentedError(returned.vcs_type[1], returned.kw)
        THEN returned.exc = "ValueError" /\ heap = <<>>
        ELSE ConstructedWithDefaults(returned.kw)

-----------------------------------------------------------------------------
(***************************************************************************)
(* Claims about coerce_repository and find_configured_repository           *)
(* (SpecCoerce).                                                           *)
(***************************************************************************)

\* The sections whose normalized name is the normalized name given.
MatchingSections(name) ==
    {i \in 1..Len(ConfigSections) :
        normalize_name(name) = normalize_name(ConfigSections[i].name)}
TheSection(name) == ConfigSections[CHOOSE i \in MatchingSections(name) : TRUE]
SectionType(sec) == Lower(KwGet(sec.options, "type")[1])
SectionKw(sec) ==
    KwOf(KwGet(sec.options, "local"), KwGet(sec.options, "remote"),
         KwGet(sec.options, "release-scheme"),
         KwGet(sec.options, "release-filter"))

\* value has the form <type>+<url> with a known type.
HasKnownPrefix(value) ==
    /\ Partition(value)[1] # <<>> /\ Partition(value)[2] # <<>>
    /\ ClassOf(Lower(Partition(value)[1])) # ""

\* The call in returned returned an instance of class cls with the given
\* remote.
Yields(cls, remote) ==
    /\ returned.exc = "" /\ returned.instance \in 1..Len(heap)
    /\ heap[returned.instance].cls = cls
    /\ heap[returned.instance].remote = Some(remote)

\* C13: coerce_repository applies its rules in a fixed order: a Repository
\* object is returned as it is; a non-string raises ValueError; a string
\* matching a configured name resolves to that repository even if it looks
\* like a URL; otherwise <type>+<url> with a known type goes to the factory
\* with remote=<url>; otherwise a string ending in '.git' yields the Git
\* backend with remote=the whole string; otherwise ValueError.
C13_CoerceRuleOrder ==
    /\ returned.op = "coerce_object" =>
           returned.exc = "" /\ returned.instance \in 1..Len(heap)
    /\ returned.op = "coerce_other" =>
           returned.exc = "ValueError" /\ returned.instance = 0
    /\ returned.op = "coerce" =>
           LET value == returned.value[1] IN
           IF MatchingSections(value) # {}
           THEN \/ returned.exc # ""
                \/ /\ Cardinality(MatchingSections(value)) = 1
                   /\ returned.vcs_type = Some(SectionType(TheSection(value)))
                   /\ returned.kw = SectionKw(TheSection(value))
                   /\ Yields(ClassOf(SectionType(TheSection(value))),
                             KwGet(TheSection(value).options, "remote")[1])
           ELSE IF HasKnownPrefix(value)
           THEN /\ returned.vcs_type = Some(Partition(value)[1])
                /\ returned.kw = RemoteOnly(Partition(value)[2])
                /\ Yields(ClassOf(Lower(Partition(value)[1])),
                          Partition(value)[2])
           ELSE IF EndsWith(value, S_dot_git)
           THEN /\ returned.vcs_type = Some(S_git)
                /\ returned.kw = RemoteOnly(value)
                /\ Yields("GitRepo", value)
           ELSE returned.exc = "ValueError" /\ returned.instance = 0

\* C14: the only errors coerce_repository swallows are the 'no such
\* repository' result of the name lookup and the 'unknown repository type'
\* result of the type-prefix parse (after which it falls through to the
\* '.git' rule and then to ValueError); an ambiguous configured name, a
\* configured entry with an unknown type and constructor errors propagate.
C14_CoerceSwallowsOnlyTwoErrors ==
    returned.op = "coerce" =>
        LET value == returned.value[1]
            n == Cardinality(MatchingSections(value))
        IN /\ returned.exc # "NoSuchRepositoryError"
           /\ n > 1 => returned.exc = "AmbiguousRepositoryNameError"
           /\ (n = 1 /\ ClassOf(SectionType(TheSection(value))) = "")
                  => returned.exc = "UnknownRepositoryTypeError"
           /\ (/\ n = 1 /\ ClassOf(SectionType(TheSection(value))) # ""
               /\ NoLocalNoRemote(SectionKw(TheSection(value))))
                  => returned.exc = "ValueError"
           /\ n = 0 =>
                  /\ returned.exc \in {"", "ValueError"}
                  /\ returned.exc = "ValueError" <=>
                         (~HasKnownPrefix(value) /\ ~EndsWith(value, S_dot_git))

\* C14 witness: an unknown type before the '+' was swallowed and the
\* '.git' rule resolved the whole string.
C14_Witness ==
    /\ returned.op = "coerce" /\ returned.value = Some(V_svn_U1)
    /\ returned.exc = "" /\ returned.kw = RemoteOnly(V_svn_U1)
    /\ returned.instance \in 1..Len(heap)

\* C15: find_configured_repository(name) compares names after
\* normalization (lower case, only a-z and 0-9 kept): it raises
\* NoSuchRepositoryError when no section matches,
\* AmbiguousRepositoryNameError when more than one matches ('X2' against
\* 'x_2' and 'x-2'), and otherwise builds the repository from the single
\* matching section ('T-' resolves to section 't').
C15_FindConfiguredByNormalizedName ==
    returned.op = "find" =>
        LET name == returned.value[1]
            n == Cardinality(MatchingSections(name))
            sec == TheSection(name)
        IN /\ n = 0 <=> returned.exc = "NoSuchRepositoryError"
           /\ n > 1 <=> returned.exc = "AmbiguousRepositoryNameError"
           /\ n # 1 => returned.instance = 0 /\ returned.vcs_type = None
           /\ n = 1 =>
                  /\ returned.vcs_type = Some(SectionType(sec))
                  /\ returned.kw = SectionKw(sec)
                  /\ ClassOf(SectionType(sec)) = "" =>
                         returned.exc = "UnknownRepositoryTypeError"
                  /\ returned.exc = "" =>
                         /\ returned.instance \in 1..Len(heap)
                         /\ heap[returned.instance].remote =
                                KwGet(sec.options, "remote")
           /\ name = V_x2 => returned.exc = "AmbiguousRepositoryNameError"
           /\ name = V_junk => returned.exc = "NoSuchRepositoryError"
           /\ name = V_T => returned.exc = "" /\ sec.name = N_t
           /\ name = U2 => returned.exc = "" /\ sec.name = N_b_git

\* C15 witness: 'T-' was resolved to the section 't' and its repository.
C15_Witness ==
    /\ returned.op = "find" /\ returned.value = Some(V_T)
    /\ returned.exc = "" /\ returned.vcs_type = Some(S_git)
    /\ returned.instance \in 1..Len(heap)
    /\ heap[returned.instance].remote = Some(U1)

\* C16: configuration errors (no matching name, ambiguous name, unknown
\* backend type) are raised before any VCS command runs and before any
\* Repository is constructed and leave the registry cache as it was;
\* likewise a factory call whose constructor raises adds no entry.
C16_ErrorsLeaveCacheUnchanged ==
    [][ (returned'.op \in {"factory", "coerce", "find"} /\ returned'.exc # "")
            => /\ loaded_repositories' = loaded_repositories
               /\ heap' = heap
               /\ last' = last
               /\ returned'.instance = 0 ]_vars

\* C16 witness: a configured entry with an unknown type was rejected while
\* the cache held two entries.
C16_Witness ==
    /\ returned.op = "find" /\ returned.value = Some(N_u)
    /\ returned.exc = "UnknownRepositoryTypeError"
    /\ Len(loaded_repositories) = 2 /\ Len(heap) = 2

-----------------------------------------------------------------------------
(***************************************************************************)
(* Claims about release_to_branch and release_to_tag (SpecRel).            *)
(***************************************************************************)

\* C17: release_to_branch raises TypeError when release_scheme is not
\* 'branches' and release_to_tag raises TypeError when it is not 'tags',
\* both before any VCS command runs; when the scheme matches, for every
\* release r in releases the call with r.identifier returns the name of
\* the branch/tag of r.revision.
C17_ReleaseToName ==
    /\ answer.op = "release_to_branch" =>
           IF scheme # "branches"
           THEN /\ answer.raised /\ answer.value = <<"TypeError">>
                /\ answer.cmds = <<>>
           ELSE \A i \in 1..Len(releases) :
                   answer.arg = releases[i].value.identifier =>
                       /\ ~answer.raised
                       /\ answer.value = releases[i].value.revision.branch
                       /\ answer.value \in BranchNames
    /\ answer.op = "release_to_tag" =>
           IF scheme # "tags"
           THEN /\ answer.raised /\ answer.value = <<"TypeError">>
                /\ answer.cmds = <<>>
           ELSE \A i \in 1..Len(releases) :
                   answer.arg = releases[i].value.identifier =>
                       /\ ~answer.raised
                       /\ answer.value = releases[i].value.revision.tag
                       /\ answer.value \in Names

\* C17 witness: with the filter ^v(\d+(?:\.\d+)*)$ the identifier 2.4.0
\* was translated to the tag v2.4.0.
C17_Witness ==
    /\ scheme = "tags" /\ filter = "v"
    /\ answer.op = "release_to_tag" /\ answer.arg = T_2_4_0
    /\ ~answer.raised /\ answer.value = T_v2_4_0

-----------------------------------------------------------------------------
(***************************************************************************)
(* Part 5: Revision objects and their revision_number (SpecRevision).      *)
(* heap holds the Revision objects; with each object the model remembers   *)
(* the number given to the constructor (supplied) and whether              *)
(* revision_number was read before (read_before).                          *)
(***************************************************************************)

RevisionNumbers == 0..MaxNumber

\* Revision(repository, revision_id, revision_number=number)
Revision(revision_id, number) ==
    [cls |-> "Revision", revision_id |-> revision_id,
     _revision_number |-> number, supplied |-> number, read_before |-> FALSE]

\* What a read of revision_number did: the value returned or the exception
\* of the command, the calls of find_revision_number, and the object after.
NumberRead(value, raised, cmds, object) ==
    [value |-> value, raised |-> raised, cmds |-> cmds, object |-> object]

\* Revision.revision_number, were the number resolved on every read.
revision_number_uncached(rev, found, ok) ==
    IF ok
    THEN NumberRead(Some(found), FALSE, <<"find_revision_number">>,
                    [rev EXCEPT !._revision_number = Some(found),
                                !.read_before = TRUE])
    ELSE NumberRead(None, TRUE, <<"find_revision_number">>,
                    [rev EXCEPT !.read_before = TRUE])

\* Revision.revision_number read on rev, when find_revision_number would
\* return found (ok) or its command would fail (~ok).
revision_number(rev, found, ok) ==
    IF rev._revision_number = None
    THEN IF ok
         THEN NumberRead(Some(found), FALSE, <<"find_revision_number">>,
                         [rev EXCEPT !._revision_number = Some(found),
                                     !.read_before = TRUE])
         ELSE NumberRead(None, TRUE, <<"find_revision_number">>,
                         [rev EXCEPT !.read_before = TRUE])
    ELSE NumberRead(rev._revision_number, FALSE, <<>>,
                    [rev EXCEPT !.read_before = TRUE])

InitRevision ==
    /\ heap = <<>>
    /\ answer = Answer("none", <<>>, <<>>, FALSE)
    /\ loaded_repositories = <<>>
    /\ returned = NoCall /\ earlier = NoCall
    /\ exists = [l \in Locals |-> TRUE]
    /\ marker = [l \in Locals |-> None]
    /\ clock = StartClock /\ environ = None /\ scopes = <<>>
    /\ pulled = [l \in Locals |-> 0]
    /\ last = Call("none", "a", "None", <<>>)
    /\ listing = [tags |-> <<>>, branches |-> <<>>]
    /\ scheme = "tags" /\ filter = "any"

NewRevision(number) ==
    /\ Len(heap) < MaxInstances
    /\ heap' = Append(heap, Revision("a1", number))
    /\ answer' = AnswerRan("Revision", Len(heap) + 1, number, FALSE, <<>>)
    /\ UNCHANGED <<listing, scheme, filter, repoVars>>
    /\ UNCHANGED <<loaded_repositories, returned, earlier>>

ReadRevisionNumber(i, found, ok) ==
    LET read == revision_number(heap[i], found, ok) IN
    /\ heap' = [heap EXCEPT ![i] = read.object]
    /\ answer' = AnswerRan("revision_number", i, read.value, read.raised,
                           read.cmds)
    /\ UNCHANGED <<listing, scheme, filter, repoVars>>
    /\ UNCHANGED <<loaded_repositories, returned, earlier>>

NextRevision ==
    \/ \E number \in {None} \cup {Some(n) : n \in RevisionNumbers} :
          NewRevision(number)
    \/ \E i \in 1..Len(heap), found \in RevisionNumbers, ok \in BOOLEAN :
          ReadRevisionNumber(i, found, ok)

SpecRevision == InitRevision /\ [][NextRevision]_vars

\* The step is a read of revision_number on the object at place i.
IsRead(i) ==
    /\ answer'.op = "revision_number" /\ answer'.arg = i
    /\ i \in 1..Len(heap) /\ Len(heap') = Len(heap)
    /\ heap'[i].read_before
    /\ \A j \in 1..Len(heap) : j # i => heap'[j] = heap[j]

\* C18 (as amended): for a Revision constructed with an explicit
\* revision_number no read ever calls find_revision_number and every read
\* returns the supplied integer; for a Revision constructed without one,
\* find_revision_number is called on each read until a call returns, and
\* every later read returns that same value without a call.
C18_RevisionNumberCached ==
    [][ \A i \in 1..Len(heap) : IsRead(i) =>
          /\ heap[i].supplied # None =>
                 /\ answer'.cmds = <<>> /\ ~answer'.raised
                 /\ answer'.value = heap[i].supplied
          /\ heap[i]._revision_number # None =>
                 /\ answer'.cmds = <<>> /\ ~answer'.raised
                 /\ answer'.value = heap[i]._revision_number
                 /\ heap'[i]._revision_number = heap[i]._revision_number
          /\ heap[i]._revision_number = None =>
                 /\ answer'.cmds = <<"find_revision_number">>
                 /\ heap'[i]._revision_number = answer'.value ]_vars

\* C18 witness: a Revision made without a number was read a second time
\* and returned the number of the first read without a call.
C18_Witness ==
    /\ answer.op = "revision_number" /\ answer.cmds = <<>>
    /\ heap[answer.arg].supplied = None
    /\ heap[answer.arg]._revision_number = answer.value
    /\ answer.value = Some(0)

\* C18 as stated: for a Revision constructed without a number,
\* find_revision_number is called on the first read only.
C18_Original ==
    [][ \A i \in 1..Len(heap) : IsRead(i) =>
          /\ heap[i].supplied # None =>
                 /\ answer'.cmds = <<>>
                 /\ answer'.value = heap[i].supplied
          /\ heap[i].supplied = None =>
                 /\ answer'.cmds # <<>> <=> ~heap[i].read_before
                 /\ heap[i].read_before =>
                        answer'.value = heap[i]._revision_number ]_vars

-----------------------------------------------------------------------------
(***************************************************************************)
(* More claims about update() (SpecRepo).                                  *)
(***************************************************************************)

\* C19: a single update() call runs at most one external command: when
\* the local clone does not exist it runs the clone command only and never
\* the pull command (also when an update limit is set); when the clone
\* exists it runs at most the pull command.
C19_UpdateRunsOneCommand ==
    [][ last'.op = "update" =>
          LET l == RepoLocal(last'.repo) IN
          /\ Len(last'.cmds) <= 1
          /\ (HasRemote(last'.repo) /\ ~exists[l]) => last'.cmds = <<"clone">>
          /\ exists[l] => last'.cmds \in {<<>>, <<"pull">>} ]_vars

\* C19 witness: with an update limit set, update() made the clone and
\* returned.
C19_Witness ==
    /\ last.op = "update" /\ last.cmds = <<"clone">> /\ last.ret = "None"
    /\ environ # None /\ scopes # <<>>
    /\ exists[RepoLocal(last.repo)]

\* C20: update() on a repository with no remote configured does nothing:
\* it runs no clone or pull command, does not write the last-update marker
\* and does not change the update-limit variable.
C20_UpdateWithoutRemote ==
    [][ (last'.op = "update" /\ ~HasRemote(last'.repo)) =>
          /\ last'.cmds = <<>> /\ last'.ret = "None"
          /\ marker' = marker
          /\ environ' = environ
          /\ exists' = exists ]_vars

\* C20 witness: update() of the repository without a remote returned
\* without a command although its clone was last updated before the limit.
C20_Witness ==
    /\ last.op = "update" /\ ~HasRemote(last.repo)
    /\ last.cmds = <<>> /\ last.ret = "None"
    /\ global_last_update(environ) # 0
    /\ last_updated(RepoLocal(last.repo)) < global_last_update(environ)

-----------------------------------------------------------------------------
(***************************************************************************)
(* Claims about the last-update marker (SpecRepo).                         *)
(***************************************************************************)

\* C21: in every reachable state last_updated is 0 when there is no local
\* clone and greater than 0 when the local clone exists.
C21_LastUpdatedIffCloneExists ==
    \A l \in Locals : IF exists[l] THEN last_updated(l) > 0
                      ELSE last_updated(l) = 0

\* C22: the local clone is created lazily and always first: on a
\* repository with a remote, branches, tags, releases, export,
\* find_revision_number and find_revision_id never run a VCS query or
\* export command while the local clone does not exist; each first runs
\* the clone command if the clone is absent.
C22_CloneComesFirst ==
    [][ (last'.op \in LazyOps /\ HasRemote(last'.repo)) =>
          LET l == RepoLocal(last'.repo)
              cmds == last'.cmds
          IN /\ ~exists[l] => /\ cmds # <<>> /\ cmds[1] = "clone"
                              /\ Len(cmds) > 1 => exists'[l]
             /\ exists[l] => cmds = <<QueryOf(last'.op)>>
             /\ \A i \in 1..Len(cmds) :
                   cmds[i] # "clone" => (exists[l] \/ (i = 2 /\ exists'[l])) ]_vars

\* C22 witness: export on a repository without a clone ran the clone
\* command and then the export command.
C22_Witness ==
    /\ last.op = "export" /\ HasRemote(last.repo)
    /\ last.cmds = <<"clone", "export">> /\ last.ret = "None"
    /\ exists[RepoLocal(last.repo)]

\* C23: when the clone command of create() or the pull command of update()
\* fails, the failure propagates to the caller, the command was run once
\* and nothing after it, the last-update marker is not written (so
\* last_updated keeps its value), and an update() that follows within the
\* same limiter scope runs the command again.
C23_FailurePropagates ==
    /\ [][ (last'.op \in {"create", "update"} /\ last'.ret = "raise")
           => /\ last'.cmds \in {<<"clone">>, <<"pull">>}
              /\ last'.op = "create" => last'.cmds = <<"clone">>
              /\ marker' = marker
              /\ exists' = exists
              /\ \A l \in Locals : last_updated(l)' = last_updated(l) ]_vars
    /\ [][ (last.op \in {"create", "update"} /\ last.ret = "raise"
            /\ last'.op = "update" /\ last'.repo = last.repo
            /\ environ' = environ)
           => last'.cmds = last.cmds ]_vars

\* C23 witness: inside a limiter scope, on a clone whose marker was
\* written, the pull command of update() failed.
C23_Witness ==
    /\ last.op = "update" /\ last.ret = "raise" /\ last.cmds = <<"pull">>
    /\ scopes # <<>> /\ global_last_update(environ) # 0
    /\ last_updated(RepoLocal(last.repo)) > 0

-----------------------------------------------------------------------------
(***************************************************************************)
(* Accesses of tags, branches, releases, ordered_releases and              *)
(* select_release while the tags and branches of the clone change.         *)
(***************************************************************************)

\* The names an update() can bring in, and the ceilings asked for.
FreshNames == {T_0_2, T_0_19, T_v2_4_0}
FreshCeilings == {T_0_2, T_2_4_0}
FreshOps == {"tags", "branches", "releases", "ordered_releases",
             "select_release"}

\* An access, were the value of the previous access of the same property
\* kept and returned.
access_cached(op, h) ==
    IF answer.op = op /\ answer.arg = h THEN answer.value
    ELSE CASE op = "tags" -> tags
           [] op = "branches" -> branches
           [] op = "releases" -> releases
           [] op = "ordered_releases" -> ordered_releases
           [] OTHER -> select_release(h)

\* The value of an access of a property (h is <<>>), or of
\* select_release(h): the property's body runs on every access.
access(op, h) ==
    CASE op = "tags" -> tags
      [] op = "branches" -> branches
      [] op = "releases" -> releases
      [] op = "ordered_releases" -> ordered_releases
      [] OTHER -> select_release(h)

\* The answer of an access, with the value the previous access of the same
\* property gave (None when the previous access was another one).
Fresh(op, arg, value, previous) ==
    [op |-> op, arg |-> arg, value |-> value, raised |-> FALSE,
     previous |-> previous]

InitFresh ==
    /\ scheme \in {"tags", "branches"}
    /\ filter \in Filters
    /\ listing = [tags |-> <<>>, branches |-> <<BranchRevision(T_master)>>]
    /\ answer = Fresh("none", <<>>, <<>>, None)
    /\ clock = StartClock /\ environ = None /\ scopes = <<>>
    /\ exists = [l \in Locals |-> TRUE]
    /\ marker = [l \in Locals |-> None]
    /\ pulled = [l \in Locals |-> 0]
    /\ last = Call("none", "a", "None", <<>>)
    /\ loaded_repositories = <<>> /\ heap = <<>>
    /\ returned = NoCall /\ earlier = NoCall

\* The repository gets a new tag (an update() brings it in).
AddTag(name) ==
    /\ Len(listing.tags) < MaxTags
    /\ \A i \in 1..Len(listing.tags) : listing.tags[i].tag # name
    /\ listing' = [listing EXCEPT !.tags = Append(@, TagRevision(name))]
    /\ UNCHANGED <<scheme, filter, answer, repoVars, facVars>>

\* The repository gets a new branch.
AddBranch(name) ==
    /\ Len(listing.branches) < MaxTags
    /\ \A i \in 1..Len(listing.branches) : listing.branches[i].branch # name
    /\ listing' = [listing EXCEPT !.branches = Append(@, BranchRevision(name))]
    /\ UNCHANGED <<scheme, filter, answer, repoVars, facVars>>

\* The newest tag is deleted.
DropTag ==
    /\ listing.tags # <<>>
    /\ listing' = [listing EXCEPT !.tags = SubSeq(@, 1, Len(@) - 1)]
    /\ UNCHANGED <<scheme, filter, answer, repoVars, facVars>>

AccessProperty(op) ==
    /\ answer' = Fresh(op, <<>>, access(op, <<>>),
                       IF answer.op = op THEN Some(answer.value) ELSE None)
    /\ UNCHANGED <<listing, scheme, filter, repoVars, facVars>>

AccessSelectRelease(h) ==
    /\ answer' = Fresh("select_release", h, access("select_release", h),
                       IF answer.op = "select_release" /\ answer.arg = h
                       THEN Some(answer.value) ELSE None)
    /\ UNCHANGED <<listing, scheme, filter, repoVars, facVars>>

NextFresh ==
    \/ \E name \in FreshNames : AddTag(name)
    \/ \E name \in BranchNames : AddBranch(name)
    \/ DropTag
    \/ \E op \in FreshOps \ {"select_release"} : AccessProperty(op)
    \/ \E h \in FreshCeilings : AccessSelectRelease(h)

SpecFresh == InitFresh /\ [][NextFresh]_vars

\* C24: the tags, branches and releases mappings are recomputed on every
\* access: each access of tags, branches, releases, ordered_releases or
\* select_release answers with the value of the tags and branches the
\* repository has at that moment, whatever an earlier access answered.
C24_NeverCached ==
    [][ answer' # answer =>
          /\ listing' = listing
          /\ answer'.value =
               (CASE answer'.op = "tags" -> DictOf(listing.tags, "tag")
                  [] answer'.op = "branches" -> DictOf(listing.branches, "branch")
                  [] answer'.op = "releases" -> releases
                  [] answer'.op = "ordered_releases" ->
                        natsort(DictValues(releases), "identifier")
                  [] OTHER -> select_release(answer'.arg)) ]_vars

\* C24 witness: releases was read, a tag matching the filter came in, and
\* the next read of releases has the release of the new tag, which the
\* read before did not have.
C24_Witness ==
    /\ answer.op = "releases" /\ scheme = "tags" /\ filter = "v"
    /\ answer.previous # None
    /\ T_2_4_0 \notin DictKeys(answer.previous[1])
    /\ T_2_4_0 \in DictKeys(answer.value)
    /\ answer.value = releases

-----------------------------------------------------------------------------
(***************************************************************************)
(* HgRepo.find_revision_id and GitRepo.find_revision_id on the output of   *)
(* the id command.                                                         *)
(***************************************************************************)

\* The characters of the output of the id command.
OutputChars == {"a", "F", "g", "9", "+", "-"}
HexDigits == {"0", "1", "2", "3", "4", "5", "6", "7", "8", "9",
              "a", "b", "c", "d", "e", "f", "A", "B", "C", "D", "E", "F"}
LowerLetters == {"a", "b", "c", "d", "e", "f", "g", "h", "i", "j", "k", "l",
                 "m", "n", "o", "p", "q", "r", "s", "t", "u", "v", "w", "x",
                 "y", "z"}

\* The strings of at most n characters of S.
RECURSIVE Strings(_, _)
Strings(S, n) ==
    IF n = 0 THEN {<<>>}
    ELSE LET shorter == Strings(S, n - 1) IN
         shorter \cup {Append(q, x) : q \in {p \in shorter : Len(p) = n - 1},
                                      x \in S}

\* result.rstrip(ch)
RECURSIVE rstrip(_, _)
rstrip(s, ch) ==
    IF s # <<>> /\ s[Len(s)] = ch THEN rstrip(SubSeq(s, 1, Len(s) - 1), ch)
    ELSE s

\* re.match('^[A-Fa-z0-9]+$', result): the class is A-F, a-z, 0-9.
MatchesIdPattern(result) ==
    /\ result # <<>>
    /\ \A i \in 1..Len(result) :
          result[i] \in {"A", "B", "C", "D", "E", "F"} \cup LowerLetters
                        \cup {"0", "1", "2", "3", "4", "5", "6", "7", "8", "9"}

\* HgRepo.find_revision_id on the output of 'hg id' (the clone exists).
hg_find_revision_id(output) ==
    LET result == rstrip(output, "+") IN
    IF MatchesIdPattern(result) THEN Answer("hg_find_revision_id", output, result, FALSE)
    ELSE Answer("hg_find_revision_id", output, <<"AssertionError">>, TRUE)

\* GitRepo.find_revision_id on the output of 'git rev-parse'.
git_find_revision_id(output) ==
    IF MatchesIdPattern(output) THEN Answer("git_find_revision_id", output, output, FALSE)
    ELSE Answer("git_find_revision_id", output, <<"AssertionError">>, TRUE)

InitRevisionId ==
    /\ listing \in [output : Strings(OutputChars, MaxOutput)]
    /\ scheme = "tags" /\ filter = "any"
    /\ answer = Answer("none", <<>>, <<>>, FALSE)
    /\ clock = StartClock /\ environ = None /\ scopes = <<>>
    /\ exists = [l \in Locals |-> TRUE]
    /\ marker = [l \in Locals |-> None]
    /\ pulled = [l \in Locals |-> 0]
    /\ last = Call("none", "a", "None", <<>>)
    /\ loaded_repositories = <<>> /\ heap = <<>>
    /\ returned = NoCall /\ earlier = NoCall

HgFindRevisionId ==
    /\ answer' = hg_find_revision_id(listing.output)
    /\ UNCHANGED <<listing, scheme, filter, repoVars, facVars>>

GitFindRevisionId ==
    /\ answer' = git_find_revision_id(listing.output)
    /\ UNCHANGED <<listing, scheme, filter, repoVars, facVars>>

NextRevisionId ==
    \/ HgFindRevisionId
    \/ GitFindRevisionId

SpecRevisionId == InitRevisionId /\ [][NextRevisionId]_vars

\* C25: HgRepo.find_revision_id and GitRepo.find_revision_id return only
\* non-empty strings of hexadecimal digits (0-9, a-f, A-F); output with
\* any other character fails the format assertion.
C25_ReturnsOnlyHexadecimal ==
    (answer.op \in {"hg_find_revision_id", "git_find_revision_id"}
     /\ ~answer.raised)
    => /\ answer.value # <<>>
       /\ \A i \in 1..Len(answer.value) : answer.value[i] \in HexDigits

-----------------------------------------------------------------------------
(***************************************************************************)
(* HgRepo.find_branches and HgRepo.find_tags on the lines of the listing   *)
(* command. A line is the sequence of its tokens, line.split().            *)
(***************************************************************************)

\* The second tokens of the lines: 1:a, 2:F, x:a, 1:2:a, 1 and :a.
HgSecondTokens == {<<"1", ":", "a">>, <<"2", ":", "F">>, <<"x", ":", "a">>,
                   <<"1", ":", "2", ":", "a">>, <<"1">>, <<":", "a">>}
HgLines ==
    {<<>>, <<T_0_2>>}
    \cup {<<T_0_2, t>> : t \in HgSecondTokens}
    \cup {<<T_master, <<"2", ":", "F">>, <<"(", ")">> >>}

\* The sequences of at most n elements of S.
RECURSIVE Outputs(_, _)
Outputs(S, n) ==
    IF n = 0 THEN {<<>>}
    ELSE LET shorter == Outputs(S, n - 1) IN
         shorter \cup {Append(q, x) : q \in {p \in shorter : Len(p) = n - 1},
                                      x \in S}

\* s.split(sep): the parts of s between the separators.
RECURSIVE split(_, _)
split(s, sep) ==
    IF \A i \in 1..Len(s) : s[i] # sep THEN <<s>>
    ELSE LET i == CHOOSE k \in 1..Len(s) :
                     s[k] = sep /\ \A j \in 1..(k - 1) : s[j] # sep
         IN <<SubSeq(s, 1, i - 1)>> \o split(SubSeq(s, i + 1, Len(s)), sep)

\* int(s) succeeds on a string without sign or blanks when it is a
\* non-empty run of digits.
IsDigits(s) == s # <<>> /\ \A i \in 1..Len(s) : IsDigit(s[i])

\* What the loop of find_branches / find_tags does with one line: skip it,
\* yield a Revision, or raise ValueError (from the unpacking of the
\* split, or from int()).
hg_parse_line(tokens, field) ==
    IF Len(tokens) >= 2 /\ \E i \in 1..Len(tokens[2]) : tokens[2][i] = ":"
    THEN LET parts == split(tokens[2], ":") IN
         IF Len(parts) # 2 \/ ~IsDigits(parts[1])
         THEN [kind |-> "raise"]
         ELSE [kind |-> "yield",
               revision |-> [revision_id |-> parts[2],
                             revision_number |-> ParseInt(parts[1]),
                             name |-> tokens[1], field |-> field]]
    ELSE [kind |-> "skip"]

\* list(self.find_branches()) / list(self.find_tags()) over the first n
\* lines: the revisions yielded, or the exception raised.
RECURSIVE hg_find(_, _, _)
hg_find(lines, n, field) ==
    IF n = 0 THEN [raised |-> FALSE, value |-> <<>>]
    ELSE LET done == hg_find(lines, n - 1, field)
             p == hg_parse_line(lines[n], field)
         IN IF done.raised THEN done
            ELSE IF p.kind = "raise"
            THEN [raised |-> TRUE, value |-> <<"ValueError">>]
            ELSE IF p.kind = "yield"
            THEN [raised |-> FALSE, value |-> Append(done.value, p.revision)]
            ELSE done

InitHg ==
    /\ listing \in [lines : Outputs(HgLines, MaxLines)]
    /\ scheme = "tags" /\ filter = "any"
    /\ answer = Answer("none", <<>>, <<>>, FALSE)
    /\ clock = StartClock /\ environ = None /\ scopes = <<>>
    /\ exists = [l \in Locals |-> TRUE]
    /\ marker = [l \in Locals |-> None]
    /\ pulled = [l \in Locals |-> 0]
    /\ last = Call("none", "a", "None", <<>>)
    /\ loaded_repositories = <<>> /\ heap = <<>>
    /\ returned = NoCall /\ earlier = NoCall

HgFindBranches ==
    LET f == hg_find(listing.lines, Len(listing.lines), "branch") IN
    /\ answer' = Answer("hg_find_branches", listing.lines, f.value, f.raised)
    /\ UNCHANGED <<listing, scheme, filter, repoVars, facVars>>

HgFindTags ==
    LET f == hg_find(listing.lines, Len(listing.lines), "tag") IN
    /\ answer' = Answer("hg_find_tags", listing.lines, f.value, f.raised)
    /\ UNCHANGED <<listing, scheme, filter, repoVars, facVars>>

NextHg ==
    \/ HgFindBranches
    \/ HgFindTags

SpecHg == InitHg /\ [][NextHg]_vars

\* A line of the form <name> <number>:<hexid> ...
HgWellFormed(tokens) ==
    /\ Len(tokens) >= 2
    /\ LET parts == split(tokens[2], ":") IN
       /\ Len(parts) = 2
       /\ IsDigits(parts[1])

\* C26: HgRepo.find_branches and HgRepo.find_tags yield a Revision for each
\* line of the form <name> <number>:<hexid> and skip every other line
\* without raising, also a line whose second token has a non-numeric part
\* before the colon or more than one colon.
C26_SkipsOtherLines ==
    answer.op \in {"hg_find_branches", "hg_find_tags"} =>
        /\ ~answer.raised
        /\ Len(answer.value) =
             Cardinality({i \in 1..Len(answer.arg) : HgWellFormed(answer.arg[i])})

-----------------------------------------------------------------------------
(***************************************************************************)
(* BzrRepo.find_tags on the lines of 'bzr tags' and 'bzr tags --show-ids'. *)
(***************************************************************************)

BzrTagNames == {T_0_2, T_v0_2}

\* The lines of 'bzr tags': a tag with a revision number, a tag whose
\* revision does not exist, and a line of three tokens.
BzrTagLines ==
    UNION {{<<n, "1">>, <<n, "?">>, <<n, "1", "x">>} : n \in BzrTagNames}

\* The lines of 'bzr tags --show-ids': a tag with its revision id, and a
\* line of one token.
BzrIdLines == UNION {{<<n, RevisionId(n)>>, <<n>>} : n \in BzrTagNames}

\* A listing names a tag on one line only.
UniqueNames(lines) ==
    \A i, j \in 1..Len(lines) : i # j => lines[i][1] # lines[j][1]

\* The first loop of find_tags over the first n lines: valid_tags.
RECURSIVE bzr_valid_tags(_, _)
bzr_valid_tags(lines, n) ==
    IF n = 0 THEN <<>>
    ELSE LET done == bzr_valid_tags(lines, n - 1)
             tokens == lines[n]
         IN IF Len(tokens) = 2 /\ tokens[2] # "?"
            THEN Append(done, tokens[1]) ELSE done

\* The second loop over the first n lines of the ids listing.
RECURSIVE bzr_yield(_, _, _)
bzr_yield(lines, n, valid_tags) ==
    IF n = 0 THEN <<>>
    ELSE LET done == bzr_yield(lines, n - 1, valid_tags)
             tokens == lines[n]
         IN IF Len(tokens) = 2
               /\ \E i \in 1..Len(valid_tags) : valid_tags[i] = tokens[1]
            THEN Append(done, [revision_id |-> tokens[2], tag |-> tokens[1],
                               branch |-> None])
            ELSE done

\* find_tags, were every two-token line of the ids listing yielded.
bzr_find_tags_ids_only(tag_lines, id_lines) ==
    bzr_yield(id_lines, Len(id_lines),
              [i \in 1..Len(id_lines) |-> id_lines[i][1]])

\* list(BzrRepo.find_tags())
bzr_find_tags(tag_lines, id_lines) ==
    bzr_yield(id_lines, Len(id_lines),
              bzr_valid_tags(tag_lines, Len(tag_lines)))

InitBzr ==
    /\ listing \in {l \in [tags : Outputs(BzrTagLines, MaxLines),
                           ids : Outputs(BzrIdLines, MaxLines)] :
                       UniqueNames(l.tags) /\ UniqueNames(l.ids)}
    /\ scheme = "tags" /\ filter = "any"
    /\ answer = Answer("none", <<>>, <<>>, FALSE)
    /\ clock = StartClock /\ environ = None /\ scopes = <<>>
    /\ exists = [l \in Locals |-> TRUE]
    /\ marker = [l \in Locals |-> None]
    /\ pulled = [l \in Locals |-> 0]
    /\ last = Call("none", "a", "None", <<>>)
    /\ loaded_repositories = <<>> /\ heap = <<>>
    /\ returned = NoCall /\ earlier = NoCall

BzrFindTags ==
    /\ answer' = Answer("bzr_find_tags", listing,
                        bzr_find_tags(listing.tags, listing.ids), FALSE)
    /\ UNCHANGED <<listing, scheme, filter, repoVars, facVars>>

\* BzrRepo.tags: the dict of the tags yielded.
BzrTags ==
    /\ answer' = Answer("bzr_tags", listing,
                        DictOf(bzr_find_tags(listing.tags, listing.ids), "tag"),
                        FALSE)
    /\ UNCHANGED <<listing, scheme, filter, repoVars, facVars>>

NextBzr ==
    \/ BzrFindTags
    \/ BzrTags

SpecBzr == InitBzr /\ [][NextBzr]_vars

\* The tags a listing reports on a two-token line whose second token
\* satisfies the test.
Reported(lines, resolvable) ==
    {lines[i][1] : i \in {k \in 1..Len(lines) :
                            /\ Len(lines[k]) = 2
                            /\ resolvable => lines[k][2] # "?"}}

\* C27: BzrRepo.find_tags yields exactly the tags that the first listing
\* reports on a two-token line with a second token other than '?' and
\* that the ids listing has on a two-token line, each once and with the
\* revision id of the ids listing; a tag reported as '?' is never yielded.
C27_BzrTagsOfBothListings ==
    answer.op = "bzr_find_tags" =>
        LET first == answer.arg.tags
            ids == answer.arg.ids
            yielded == answer.value
        IN /\ ~answer.raised
           /\ {yielded[i].tag : i \in 1..Len(yielded)}
                = Reported(first, TRUE) \cap Reported(ids, FALSE)
           /\ \A i, j \in 1..Len(yielded) :
                 i # j => yielded[i].tag # yielded[j].tag
           /\ \A i \in 1..Len(yielded) :
                 /\ <<yielded[i].tag, yielded[i].revision_id>>
                      \in {ids[k] : k \in 1..Len(ids)}
                 /\ <<yielded[i].tag, "?">> \notin {first[k] : k \in 1..Len(first)}

\* C27 witness: of two tags in both listings the one reported as '?' was
\* left out and the other was yielded with its id.
C27_Witness ==
    /\ answer.op = "bzr_find_tags"
    /\ answer.arg.tags = << <<T_0_2, "?">>, <<T_v0_2, "1">> >>
    /\ answer.arg.ids = << <<T_0_2, RevisionId(T_0_2)>>,
                           <<T_v0_2, RevisionId(T_v0_2)>> >>
    /\ answer.value = <<TagRevision(T_v0_2)>>

\* C28: when the update-limit variable is absent or holds 0, every
\* update() on a repository with a remote and an existing local clone
\* runs the pull command, once and as its only command, and on its
\* success records the current time as last_updated; the call is never
\* suppressed, whatever the marker holds.
C28_UnlimitedUpdatePulls ==
    [][ (last'.op = "update" /\ HasRemote(last'.repo)
         /\ exists[RepoLocal(last'.repo)]
         /\ environ \in {None, Some(0)})
        => /\ last'.cmds = <<"pull">>
           /\ last'.ret # "raise" =>
                 /\ last'.ret = "None"
                 /\ \A l \in Locals :
                       l = RepoLocal(last'.repo) =>
                          last_updated(l)' = FormatTime(clock) ]_vars

\* C28 witness: with the variable holding 0 and no scope active, update()
\* pulled on a clone whose marker already held the current time.
C28_Witness ==
    /\ last.op = "update" /\ last.cmds = <<"pull">> /\ last.ret = "None"
    /\ environ = Some(0) /\ scopes = <<>>
    /\ clock > StartClock
    /\ last_updated(RepoLocal(last.repo)) = FormatTime(clock)

-----------------------------------------------------------------------------
(***************************************************************************)
(* Repository.releases with a release filter whose capture group may take  *)
(* no part in a match.                                                     *)
(***************************************************************************)

T_v == <<"v">>
OptionalNames == {T_v, T_v0_2, T_0_2, T_master}

InitOptional ==
    /\ scheme \in {"tags", "branches"}
    /\ filter \in Filters \cup {"vopt"}
    /\ \E q \in {p \in Listings(OptionalNames, MaxTags) : NoRepeat(p)} :
          listing = [tags |-> [i \in 1..Len(q) |-> TagRevision(q[i])],
                     branches |-> [i \in 1..Len(q) |-> BranchRevision(q[i])]]
    /\ answer = Answer("none", <<>>, <<>>, FALSE)
    /\ clock = StartClock /\ environ = None /\ scopes = <<>>
    /\ exists = [l \in Locals |-> TRUE]
    /\ marker = [l \in Locals |-> None]
    /\ pulled = [l \in Locals |-> 0]
    /\ last = Call("none", "a", "None", <<>>)
    /\ loaded_repositories = <<>> /\ heap = <<>>
    /\ returned = NoCall /\ earlier = NoCall

ReadReleases ==
    /\ answer' = Answer("releases", filter, releases, FALSE)
    /\ UNCHANGED <<listing, scheme, filter, repoVars, facVars>>

ReadAvailableRevisions ==
    /\ answer' = Answer(scheme, <<>>, available_revisions, FALSE)
    /\ UNCHANGED <<listing, scheme, filter, repoVars, facVars>>

NextOptional ==
    \/ ReadReleases
    \/ ReadAvailableRevisions

SpecOptional == InitOptional /\ [][NextOptional]_vars

\* C29: for every release filter the constructor accepts (no capture
\* group or one, also a group that may take no part in a match) and every
\* set of names, every key of releases and every Release.identifier is a
\* string, never None.
C29_IdentifiersAreStrings ==
    answer.op = "releases" =>
        \A i \in 1..Len(answer.value) :
            /\ answer.value[i].key # PyNone
            /\ answer.value[i].value.identifier # PyNone

-----------------------------------------------------------------------------
(***************************************************************************)
(* The branches, releases and select_release of a repository by backend:   *)
(* BzrRepo.find_branches enumerates nothing.                               *)
(***************************************************************************)

\* find_branches, were the branches of a Bazaar repository enumerated like
\* those of the other backends.
find_branches_of_any(cls, vcs_branches) ==
    [i \in 1..Len(vcs_branches) |-> BranchRevision(vcs_branches[i])]

\* list(self.find_branches()) of an instance of class cls on a repository
\* whose branches are vcs_branches: BzrRepo returns [].
find_branches(cls, vcs_branches) ==
    IF cls = "BzrRepo" THEN <<>>
    ELSE [i \in 1..Len(vcs_branches) |-> BranchRevision(vcs_branches[i])]

InitBackend ==
    /\ scheme \in {"tags", "branches"}
    /\ filter \in Filters
    /\ \E cls \in {"BzrRepo", "GitRepo"},
          q \in {p \in Listings(FreshNames, MaxTags) : NoRepeat(p)},
          b \in {p \in Listings(BranchNames, MaxTags) : NoRepeat(p)} :
          listing = [cls |-> cls, vcs_branches |-> b,
                     tags |-> [i \in 1..Len(q) |-> TagRevision(q[i])],
                     branches |-> find_branches(cls, b)]
    /\ answer = Answer("none", <<>>, <<>>, FALSE)
    /\ clock = StartClock /\ environ = None /\ scopes = <<>>
    /\ exists = [l \in Locals |-> TRUE]
    /\ marker = [l \in Locals |-> None]
    /\ pulled = [l \in Locals |-> 0]
    /\ last = Call("none", "a", "None", <<>>)
    /\ loaded_repositories = <<>> /\ heap = <<>>
    /\ returned = NoCall /\ earlier = NoCall

NextBackend ==
    \/ GetBranches
    \/ GetReleases
    \/ GetOrderedReleases
    \/ \E h \in Ceilings : SelectRelease(h)

SpecBackend == InitBackend /\ [][NextBackend]_vars

\* C30: a Bazaar repository with release_scheme 'branches' never has
\* releases: branches, releases and ordered_releases are empty, with no
\* error raised, and select_release raises NoMatchingReleasesError for
\* every ceiling.
C30_BzrBranchesNoReleases ==
    (listing.cls = "BzrRepo" /\ scheme = "branches") =>
        /\ branches = <<>> /\ releases = <<>> /\ ordered_releases = <<>>
        /\ \A h \in Ceilings : select_release(h) = None
        /\ answer.op \in {"branches", "releases", "ordered_releases"} =>
              answer.value = <<>> /\ ~answer.raised
        /\ answer.op = "select_release" => answer.raised

\* C30 witness: on a Bazaar repository that has a branch, with release
\* scheme 'branches', select_release raised.
C30_Witness ==
    /\ listing.cls = "BzrRepo" /\ scheme = "branches"
    /\ listing.vcs_branches # <<>>
    /\ answer.op = "select_release" /\ answer.raised
    /\ answer.arg = T_2_4_0

=============================================================================
